---- MODULE Spec2Model ----
(***************************************************************************)
(* glowl: RAII wrappers over OpenGL objects.  A client constructs one      *)
(* wrapper object (GLSLProgram, VertexArrayObject, Texture2DArray or       *)
(* ShaderStorageBufferObject), uses it and destroys it.  The native calls  *)
(* the wrapper issues are recorded, in order, in gl_calls; the driver's    *)
(* answers (names, compile and link status, info logs, error codes) are    *)
(* nondeterministic.                                                       *)
(***************************************************************************)
EXTENDS Integers, Sequences, FiniteSets, TLC

VARIABLES
    pc,          \* position of the client: which object exists and where its constructor stands
    gl_calls,    \* the native calls issued so far, in order
    gl_error,    \* the context's error flag, read and cleared by glGetError
    gl_info_log, \* the driver's info log of the shader or program that failed last
    cerr,        \* lines printed to std::cerr
    exception,   \* the exception that escaped the constructor, if any
    ops,         \* the number of member functions called on the constructed object
    shaderList,  \* GLSLProgram: the constructor's argument
    shader_idx,  \* GLSLProgram: position of the constructor's loop over shaderList
    glsl,        \* GLSLProgram members
    vao,         \* VertexArrayObject members
    layout,      \* Texture2DArray: the constructor's TextureLayout argument
    tex,         \* Texture2DArray (and Texture) members
    ssbo,        \* ShaderStorageBufferObject members
    tex_args,    \* Texture2DArray: the constructor's data and generateMipmap arguments
    objects,     \* the VertexArrayObjects of a client that moves them, by object identity
    call,        \* the client's call of a function of VertexLayout.hpp: arguments and result
    vao_args     \* VertexArrayObject: the constructor's arguments

vars == <<pc, gl_calls, gl_error, gl_info_log, cerr, exception, ops, shaderList, shader_idx, glsl, vao, layout, tex, ssbo, tex_args, objects, call, vao_args>>

(***************************************************************************)
(* Bounds of the model.                                                    *)
(***************************************************************************)
MaxShaders == 2
MaxLogLen == 2
MaxName == 2
MaxOps == 2
MaxDescriptorSize == 4

(***************************************************************************)
(* Helpers.                                                                *)
(***************************************************************************)
Min(a, b) == IF a <= b THEN a ELSE b
Max(a, b) == IF a >= b THEN a ELSE b

SeqsUpTo(S, n) == UNION {[1..k -> S] : k \in 0..n}

Call(f, a) == [fn |-> f, args |-> a]

\* positions of the calls of function f in the trace t
CallsOf(t, f) == {i \in 1..Len(t) : t[i].fn = f}

\* positions of the calls of function f whose k-th argument is v
CallsOn(t, f, k, v) == {i \in CallsOf(t, f) : t[i].args[k] = v}

NoException == [type |-> "none", what |-> <<>>]
\* The client has called no function of VertexLayout.hpp.
NoCall == [fn |-> "none", args |-> <<>>, returned |-> FALSE, value |-> 0]
Throw(t, w) == [type |-> t, what |-> w]

(***************************************************************************)
(* Strings are sequences of characters; NUL ends a C string.               *)
(***************************************************************************)
NUL == "\\0"
Chars == {"a", "b"}
Logs == SeqsUpTo(Chars, MaxLogLen)

\* std::string(const char*): the characters before the first NUL
RECURSIVE StdString(_)
StdString(buf) ==
    IF buf = <<>> \/ Head(buf) = NUL THEN <<>>
    ELSE <<Head(buf)>> \o StdString(Tail(buf))

\* GL_INFO_LOG_LENGTH: the length of the log including its terminator, 0 when there is none
InfoLogLength(log) == IF log = <<>> THEN 0 ELSE Len(log) + 1

\* glGet{Shader,Program}InfoLog into a zero-filled vector of bufSize characters
GetInfoLog(log, bufSize) ==
    LET n == Min(Len(log), bufSize - 1)
    IN  [i \in 1..bufSize |-> IF i <= n THEN log[i] ELSE NUL]

\* info_log_str read from a buffer with no room for the terminator
InfoLogStr_ShortBuffer(log) ==
    IF InfoLogLength(log) > 0
    THEN StdString(GetInfoLog(log, Len(log)))
    ELSE <<>>

\* the info_log_str of compileShaderFromString and link
InfoLogStr(log) ==
    LET info_log_length == InfoLogLength(log)
    IN  IF info_log_length > 0
        THEN StdString(GetInfoLog(log, info_log_length))
        ELSE <<>>

\* the native calls that fetch the info log of object obj
InfoLogCalls(getiv, getlog, obj, log) ==
    <<Call(getiv, <<obj, "GL_INFO_LOG_LENGTH", InfoLogLength(log)>>)>>
    \o (IF InfoLogLength(log) > 0
        THEN <<Call(getlog, <<obj, InfoLogLength(log)>>)>>
        ELSE <<>>)

(***************************************************************************)
(* GLSLProgram                                                             *)
(***************************************************************************)
ShaderType == {"Vertex", "Fragment"}
Sources == {<<>>, <<"s">>}
ShaderSourceList == SeqsUpTo(ShaderType \X Sources, MaxShaders)
ProgramNames == 0..MaxName

NoShaderSource == <<"No shader source.">>

\* an emptiness test that never reports an empty source
empty_Never(source) == FALSE

\* std::string::empty
empty(source) == Len(source) = 0

\* the name glCreateShader returns: a name not in use
NewShaderName(t) == Cardinality(CallsOf(t, "glCreateShader")) + 1

\* GLSLProgram::GLSLProgram up to the try block: m_handle = glCreateProgram()
GLSLProgram_ctor ==
    /\ pc = "start"
    /\ \E list \in ShaderSourceList, h \in ProgramNames :
        /\ shaderList' = list
        /\ glsl' = [glsl EXCEPT !.m_handle = h]
        /\ gl_calls' = Append(gl_calls, Call("glCreateProgram", <<h>>))
    /\ shader_idx' = 1
    /\ pc' = "glsl_try"
    /\ UNCHANGED <<ops, gl_error, gl_info_log, cerr, exception, vao, layout, tex, ssbo, tex_args, objects, call, vao_args>>

\* compileShaderFromString without the glDeleteShader of its failure branch
CompileCalls_LeakOnFail(shaderType, source, shader, compile_status, log) ==
    <<Call("glCreateShader", <<shaderType, shader>>),
      Call("glShaderSource", <<shader, 1, source>>),
      Call("glCompileShader", <<shader>>),
      Call("glGetShaderiv", <<shader, "GL_COMPILE_STATUS", compile_status>>)>>
    \o (IF compile_status = FALSE
        THEN InfoLogCalls("glGetShaderiv", "glGetShaderInfoLog", shader, log)
        ELSE <<Call("glAttachShader", <<glsl.m_handle, shader>>),
               Call("glDeleteShader", <<shader>>)>>)

\* the native calls of one compileShaderFromString and the exception it ends with
CompileCalls(shaderType, source, shader, compile_status, log) ==
    <<Call("glCreateShader", <<shaderType, shader>>),
      Call("glShaderSource", <<shader, 1, source>>),
      Call("glCompileShader", <<shader>>),
      Call("glGetShaderiv", <<shader, "GL_COMPILE_STATUS", compile_status>>)>>
    \o (IF compile_status = FALSE
        THEN InfoLogCalls("glGetShaderiv", "glGetShaderInfoLog", shader, log)
             \o <<Call("glDeleteShader", <<shader>>)>>
        ELSE <<Call("glAttachShader", <<glsl.m_handle, shader>>),
               Call("glDeleteShader", <<shader>>)>>)

\* GLSLProgram::compileShaderFromString, one iteration of the constructor's loop
compileShaderFromString ==
    /\ pc = "glsl_try"
    /\ shader_idx <= Len(shaderList)
    /\ LET shaderType == shaderList[shader_idx][1]
           source == shaderList[shader_idx][2]
       IN  IF empty(source)
           THEN /\ exception' = Throw("GLSLProgramException", NoShaderSource)
                /\ pc' = "glsl_catch"
                /\ UNCHANGED <<gl_calls, gl_info_log, shader_idx>>
           ELSE \E compile_status \in BOOLEAN :
                \E log \in (IF compile_status THEN {<<>>} ELSE Logs) :
                   /\ gl_calls' = gl_calls \o CompileCalls(shaderType, source,
                                        NewShaderName(gl_calls), compile_status, log)
                   /\ gl_info_log' = log
                   /\ IF compile_status = FALSE
                      THEN /\ exception' = Throw("GLSLProgramException", InfoLogStr(log))
                           /\ pc' = "glsl_catch"
                           /\ UNCHANGED shader_idx
                      ELSE /\ shader_idx' = shader_idx + 1
                           /\ UNCHANGED <<pc, exception>>
    /\ UNCHANGED <<ops, gl_error, cerr, shaderList, glsl, vao, layout, tex, ssbo, tex_args, objects, call, vao_args>>

\* GLSLProgram::link, called before the loop is over
link_InsideLoop ==
    /\ pc = "glsl_try"
    /\ shader_idx <= Len(shaderList)
    /\ \E link_status \in BOOLEAN :
       \E log \in (IF link_status THEN {<<>>} ELSE Logs) :
          /\ gl_calls' = gl_calls
                \o <<Call("glLinkProgram", <<glsl.m_handle>>),
                     Call("glGetProgramiv", <<glsl.m_handle, "GL_LINK_STATUS", link_status>>)>>
                \o (IF link_status = FALSE
                    THEN InfoLogCalls("glGetProgramiv", "glGetProgramInfoLog", glsl.m_handle, log)
                    ELSE <<>>)
          /\ gl_info_log' = log
          /\ IF link_status = FALSE
             THEN /\ exception' = Throw("GLSLProgramException", InfoLogStr(log))
                  /\ pc' = "glsl_catch"
             ELSE /\ pc' = "glsl_alive"
                  /\ UNCHANGED exception
    /\ UNCHANGED <<ops, gl_error, cerr, shaderList, shader_idx, glsl, vao, layout, tex, ssbo, tex_args, objects, call, vao_args>>

\* GLSLProgram::link, called when the loop is over
link ==
    /\ pc = "glsl_try"
    /\ shader_idx > Len(shaderList)
    /\ \E link_status \in BOOLEAN :
       \E log \in (IF link_status THEN {<<>>} ELSE Logs) :
          /\ gl_calls' = gl_calls
                \o <<Call("glLinkProgram", <<glsl.m_handle>>),
                     Call("glGetProgramiv", <<glsl.m_handle, "GL_LINK_STATUS", link_status>>)>>
                \o (IF link_status = FALSE
                    THEN InfoLogCalls("glGetProgramiv", "glGetProgramInfoLog", glsl.m_handle, log)
                    ELSE <<>>)
          /\ gl_info_log' = log
          /\ IF link_status = FALSE
             THEN /\ exception' = Throw("GLSLProgramException", InfoLogStr(log))
                  /\ pc' = "glsl_catch"
             ELSE /\ pc' = "glsl_alive"
                  /\ UNCHANGED exception
    /\ UNCHANGED <<ops, gl_error, cerr, shaderList, shader_idx, glsl, vao, layout, tex, ssbo, tex_args, objects, call, vao_args>>

\* a catch block that rethrows without deleting the program
GLSLProgram_catch_NoDelete ==
    /\ pc = "glsl_catch"
    /\ pc' = "glsl_thrown"
    /\ UNCHANGED <<ops, gl_calls, gl_error, gl_info_log, cerr, exception, shaderList, shader_idx, glsl, vao, layout, tex, ssbo, tex_args, objects, call, vao_args>>

\* the constructor's catch (...) block: delete the program and rethrow
GLSLProgram_catch ==
    /\ pc = "glsl_catch"
    /\ gl_calls' = Append(gl_calls, Call("glDeleteProgram", <<glsl.m_handle>>))
    /\ pc' = "glsl_thrown"
    /\ UNCHANGED <<ops, gl_error, gl_info_log, cerr, exception, shaderList, shader_idx, glsl, vao, layout, tex, ssbo, tex_args, objects, call, vao_args>>

\* GLSLProgram::use
use ==
    /\ pc = "glsl_alive"
    /\ ops < MaxOps
    /\ ops' = ops + 1
    /\ gl_calls' = Append(gl_calls, Call("glUseProgram", <<glsl.m_handle>>))
    /\ UNCHANGED <<pc, gl_error, gl_info_log, cerr, exception, shaderList, shader_idx, glsl, vao, layout, tex, ssbo, tex_args, objects, call, vao_args>>

\* GLSLProgram::~GLSLProgram
GLSLProgram_dtor ==
    /\ pc = "glsl_alive"
    /\ gl_calls' = Append(gl_calls, Call("glDeleteProgram", <<glsl.m_handle>>))
    /\ pc' = "glsl_destroyed"
    /\ UNCHANGED <<ops, gl_error, gl_info_log, cerr, exception, shaderList, shader_idx, glsl, vao, layout, tex, ssbo, tex_args, objects, call, vao_args>>

(***************************************************************************)
(* VertexLayout and VertexArrayObject                                      *)
(***************************************************************************)
Attribute(size, type, normalized, offset, shader_input_type) ==
    [size |-> size, type |-> type, normalized |-> normalized, offset |-> offset,
     shader_input_type |-> shader_input_type]

\* the attributes the client builds its layouts from; the last has no valid shader input type
Attributes ==
    {Attribute(3, "GL_FLOAT", FALSE, 0, "GL_FLOAT"),
     Attribute(2, "GL_INT", FALSE, 12, "GL_INT"),
     Attribute(4, "GL_UNSIGNED_BYTE", TRUE, 20, "GL_UNSIGNED_INT"),
     Attribute(1, "GL_DOUBLE", TRUE, 24, "GL_DOUBLE"),
     Attribute(2, "GL_SHORT", TRUE, 8, "GL_BYTE")}

VertexLayout(buffer_name, buffer_stride, buffer_start_offset, attributes) ==
    [stride |-> buffer_stride, buffer_start_offset |-> buffer_start_offset,
     buffer_name |-> buffer_name, attributes |-> attributes]

\* the layouts with at most n attributes, over two vertex buffers
Layouts(n) ==
    {VertexLayout(b[1], b[2], b[3], a) :
        b \in {<<5, 12, 0>>, <<6, 32, 16>>}, a \in SeqsUpTo(Attributes, n)}

\* the lists of k layouts holding at most n attributes in all
RECURSIVE DescriptorsOf(_, _)
DescriptorsOf(k, n) ==
    IF k = 0 THEN {<<>>}
    ELSE UNION {{<<l>> \o d : d \in DescriptorsOf(k - 1, n - Len(l.attributes))} :
                    l \in Layouts(n)}

\* the descriptors of the client: the layouts and attributes of one number at most
\* MaxDescriptorSize together
VertexDescriptors ==
    UNION {DescriptorsOf(k, MaxDescriptorSize - k) : k \in 0..MaxDescriptorSize}

VertexArrayNames == {1, 2}
IndexBufferNames == {0, 9}
GLErrors == {"GL_NO_ERROR", "GL_INVALID_OPERATION"}

\* the error flag after native calls that raised err: the first error is kept
RaiseError(flag, err) == IF flag = "GL_NO_ERROR" THEN err ELSE flag

InvalidInputType ==
    <<"Mesh::createVertexArray - invalid vertex shader input type given (use float, double or int)">>

\* the cases of the switch on attribute.shader_input_type
ValidInputType(shader_input_type) ==
    shader_input_type \in {"GL_FLOAT", "GL_INT", "GL_UNSIGNED_INT", "GL_DOUBLE"}

\* a switch with no case for integer inputs: they take the float format
FormatCall_NoIFormat(va, global_attrib_idx, attribute) ==
    IF attribute.shader_input_type = "GL_DOUBLE"
    THEN Call("glVertexArrayAttribLFormat",
              <<va, global_attrib_idx, attribute.size, attribute.type, attribute.offset>>)
    ELSE Call("glVertexArrayAttribFormat",
              <<va, global_attrib_idx, attribute.size, attribute.type,
                attribute.normalized, attribute.offset>>)

\* the format call of an attribute with a valid shader input type
FormatCall(va, global_attrib_idx, attribute) ==
    CASE attribute.shader_input_type = "GL_FLOAT" ->
            Call("glVertexArrayAttribFormat",
                 <<va, global_attrib_idx, attribute.size, attribute.type,
                   attribute.normalized, attribute.offset>>)
      [] attribute.shader_input_type \in {"GL_INT", "GL_UNSIGNED_INT"} ->
            Call("glVertexArrayAttribIFormat",
                 <<va, global_attrib_idx, attribute.size, attribute.type, attribute.offset>>)
      [] attribute.shader_input_type = "GL_DOUBLE" ->
            Call("glVertexArrayAttribLFormat",
                 <<va, global_attrib_idx, attribute.size, attribute.type, attribute.offset>>)

\* a binding call that passes the attribute index as the binding index
BindingCall_AttribIdx(va, global_attrib_idx, vertex_layout_idx) ==
    Call("glVertexArrayAttribBinding", <<va, global_attrib_idx, global_attrib_idx>>)

BindingCall(va, global_attrib_idx, vertex_layout_idx) ==
    Call("glVertexArrayAttribBinding", <<va, global_attrib_idx, vertex_layout_idx>>)

\* a vertex buffer call with stride and start offset exchanged
VertexBufferCall_Swapped(va, vertex_layout_idx, descr) ==
    Call("glVertexArrayVertexBuffer",
         <<va, vertex_layout_idx, descr.buffer_name, descr.stride, descr.buffer_start_offset>>)

VertexBufferCall(va, vertex_layout_idx, descr) ==
    Call("glVertexArrayVertexBuffer",
         <<va, vertex_layout_idx, descr.buffer_name, descr.buffer_start_offset, descr.stride>>)

\* the loop over descr.attributes: the calls issued, the attribute index reached, and
\* whether the switch threw
RECURSIVE AttributeLoop(_, _, _, _)
AttributeLoop(va, attributes, global_attrib_idx, vertex_layout_idx) ==
    IF attributes = <<>>
    THEN [calls |-> <<>>, global_attrib_idx |-> global_attrib_idx, thrown |-> FALSE]
    ELSE LET attribute == Head(attributes)
             enable == Call("glEnableVertexArrayAttrib", <<va, global_attrib_idx>>)
         IN  IF ~ValidInputType(attribute.shader_input_type)
             THEN [calls |-> <<enable>>, global_attrib_idx |-> global_attrib_idx,
                   thrown |-> TRUE]
             ELSE LET rest == AttributeLoop(va, Tail(attributes), global_attrib_idx + 1,
                                            vertex_layout_idx)
                  IN  [rest EXCEPT !.calls =
                        <<enable,
                          FormatCall(va, global_attrib_idx, attribute),
                          BindingCall(va, global_attrib_idx, vertex_layout_idx)>>
                        \o rest.calls]

\* the loop over m_vertex_descriptor
RECURSIVE LayoutLoop(_, _, _, _)
LayoutLoop(va, vertex_descriptor, vertex_layout_idx, global_attrib_idx) ==
    IF vertex_descriptor = <<>>
    THEN [calls |-> <<>>, thrown |-> FALSE]
    ELSE LET descr == Head(vertex_descriptor)
             buffer == VertexBufferCall(va, vertex_layout_idx, descr)
             attrs == AttributeLoop(va, descr.attributes, global_attrib_idx, vertex_layout_idx)
         IN  IF attrs.thrown
             THEN [calls |-> <<buffer>> \o attrs.calls, thrown |-> TRUE]
             ELSE LET rest == LayoutLoop(va, Tail(vertex_descriptor), vertex_layout_idx + 1,
                                         attrs.global_attrib_idx)
                  IN  [calls |-> <<buffer>> \o attrs.calls \o rest.calls,
                       thrown |-> rest.thrown]

\* the arguments of VertexArrayObject's constructor
ConstructorArgs(vertex_descriptor, draw_items_count, index_buffer_name, index_data_type, primitive_type) ==
    [vertex_descriptor |-> vertex_descriptor, draw_items_count |-> draw_items_count,
     index_buffer_name |-> index_buffer_name, index_data_type |-> index_data_type,
     primitive_type |-> primitive_type]
\* no VertexArrayObject was constructed from arguments
NoArgs == ConstructorArgs(<<>>, 0, 0, "0", "0")

\* createVertexArray attaching the element buffer before the loop over the layouts
createVertexArray_ElementBufferFirst(va, vertex_descriptor, index_buffer_name) ==
    LET loop == LayoutLoop(va, vertex_descriptor, 0, 0)
    IN  [calls |-> <<Call("glCreateVertexArrays", <<1, va>>)>>
                   \o (IF index_buffer_name # 0
                       THEN <<Call("glVertexArrayElementBuffer", <<va, index_buffer_name>>)>>
                       ELSE <<>>)
                   \o loop.calls,
         thrown |-> loop.thrown]

\* createVertexArray attaching whatever element buffer name it is given
createVertexArray_AttachZero(va, vertex_descriptor, index_buffer_name) ==
    LET loop == LayoutLoop(va, vertex_descriptor, 0, 0)
    IN  [calls |-> <<Call("glCreateVertexArrays", <<1, va>>)>> \o loop.calls
                   \o (IF ~loop.thrown
                       THEN <<Call("glVertexArrayElementBuffer", <<va, index_buffer_name>>)>>
                       ELSE <<>>),
         thrown |-> loop.thrown]

\* VertexArrayObject::createVertexArray with glCreateVertexArrays answering va
createVertexArray(va, vertex_descriptor, index_buffer_name) ==
    LET loop == LayoutLoop(va, vertex_descriptor, 0, 0)
    IN  [calls |-> <<Call("glCreateVertexArrays", <<1, va>>)>> \o loop.calls
                   \o (IF ~loop.thrown /\ index_buffer_name # 0
                       THEN <<Call("glVertexArrayElementBuffer", <<va, index_buffer_name>>)>>
                       ELSE <<>>),
         thrown |-> loop.thrown]

\* VertexArrayObject::VertexArrayObject: the member initialisers and createVertexArray()
VertexArrayObject_ctor ==
    /\ pc = "start"
    /\ \E vertex_descriptor \in VertexDescriptors, index_buffer_name \in IndexBufferNames,
          va \in VertexArrayNames, err \in GLErrors :
        LET made == createVertexArray(va, vertex_descriptor, index_buffer_name)
        IN  /\ vao_args' = ConstructorArgs(vertex_descriptor, 0, index_buffer_name,
                                           "GL_UNSIGNED_INT", "GL_TRIANGLES")
            /\ vao' = [m_va_handle |-> va,
                       m_vertex_descriptor |-> vertex_descriptor,
                       m_primitive_type |-> "GL_TRIANGLES",
                       m_draw_items_count |-> 0,
                       m_index_type |-> "GL_UNSIGNED_INT",
                       m_index_buffer_name |-> index_buffer_name]
            /\ gl_calls' = gl_calls \o made.calls
            /\ gl_error' = RaiseError(gl_error, err)
            /\ IF made.thrown
               THEN /\ exception' = Throw("MeshException", InvalidInputType)
                    /\ pc' = "vao_thrown"
               ELSE /\ pc' = "vao_checkError"
                    /\ UNCHANGED exception
    /\ UNCHANGED <<ops, gl_info_log, cerr, shaderList, shader_idx, glsl, layout, tex, ssbo, tex_args, objects, call>>

\* VertexArrayObject::checkError, the constructor's last statement
checkError ==
    /\ pc = "vao_checkError"
    /\ gl_calls' = Append(gl_calls, Call("glGetError", <<gl_error>>))
    /\ gl_error' = "GL_NO_ERROR"
    /\ IF gl_error # "GL_NO_ERROR"
       THEN /\ exception' = Throw("MeshException", <<"Mesh::Mesh - OpenGL error ", gl_error>>)
            /\ pc' = "vao_thrown"
       ELSE /\ pc' = "vao_alive"
            /\ UNCHANGED exception
    /\ UNCHANGED <<ops, gl_info_log, cerr, shaderList, shader_idx, glsl, vao, layout, tex, ssbo, tex_args, objects, call, vao_args>>

\* VertexArrayObject::~VertexArrayObject
VertexArrayObject_dtor ==
    /\ pc = "vao_alive"
    /\ gl_calls' = Append(gl_calls, Call("glDeleteVertexArrays", <<1, vao.m_va_handle>>))
    /\ pc' = "vao_destroyed"
    /\ UNCHANGED <<ops, gl_error, gl_info_log, cerr, exception, shaderList, shader_idx, glsl, vao, layout, tex, ssbo, tex_args, objects, call, vao_args>>

(***************************************************************************)
(* A client that gives the constructor every argument and then binds and   *)
(* draws the object.                                                       *)
(***************************************************************************)
DrawItemCounts == {0, 3}
IndexTypes == {"GL_UNSIGNED_INT", "GL_UNSIGNED_SHORT"}
PrimitiveTypes == {"GL_TRIANGLES", "GL_LINES"}
InstanceCounts == {1, 2}

\* the descriptors of this client: none, two buffers, and one with an invalid attribute
DrawDescriptors ==
    {<<>>,
     <<VertexLayout(5, 12, 0, <<Attribute(3, "GL_FLOAT", FALSE, 0, "GL_FLOAT")>>),
       VertexLayout(6, 32, 16, <<Attribute(2, "GL_INT", FALSE, 12, "GL_INT"),
                                 Attribute(1, "GL_DOUBLE", TRUE, 24, "GL_DOUBLE")>>)>>,
     <<VertexLayout(5, 12, 0, <<Attribute(3, "GL_FLOAT", FALSE, 0, "GL_FLOAT"),
                                Attribute(2, "GL_SHORT", TRUE, 8, "GL_BYTE")>>),
       VertexLayout(6, 32, 16, <<Attribute(2, "GL_INT", FALSE, 12, "GL_INT")>>)>>}

\* VertexArrayObject::VertexArrayObject with no argument left to its default
VertexArrayObject_ctor_all ==
    /\ pc = "start"
    /\ \E vertex_descriptor \in DrawDescriptors, draw_items_count \in DrawItemCounts,
          index_buffer_name \in IndexBufferNames, index_data_type \in IndexTypes,
          primitive_type \in PrimitiveTypes, va \in VertexArrayNames, err \in GLErrors :
        LET made == createVertexArray(va, vertex_descriptor, index_buffer_name)
        IN  /\ vao_args' = ConstructorArgs(vertex_descriptor, draw_items_count,
                                           index_buffer_name, index_data_type, primitive_type)
            /\ vao' = [m_va_handle |-> va,
                       m_vertex_descriptor |-> vertex_descriptor,
                       m_primitive_type |-> primitive_type,
                       m_draw_items_count |-> draw_items_count,
                       m_index_type |-> index_data_type,
                       m_index_buffer_name |-> index_buffer_name]
            /\ gl_calls' = gl_calls \o made.calls
            /\ gl_error' = RaiseError(gl_error, err)
            /\ IF made.thrown
               THEN /\ exception' = Throw("MeshException", InvalidInputType)
                    /\ pc' = "vao_thrown"
               ELSE /\ pc' = "vao_checkError"
                    /\ UNCHANGED exception
    /\ UNCHANGED <<ops, gl_info_log, cerr, shaderList, shader_idx, glsl, layout, tex, ssbo, tex_args, objects, call>>

\* VertexArrayObject::bind
VertexArrayObject_bind ==
    /\ pc = "vao_alive"
    /\ ops < MaxOps
    /\ ops' = ops + 1
    /\ gl_calls' = Append(gl_calls, Call("glBindVertexArray", <<vao.m_va_handle>>))
    /\ UNCHANGED <<pc, gl_error, gl_info_log, cerr, exception, shaderList, shader_idx, glsl, vao, layout, tex, ssbo, tex_args, objects, call, vao_args>>

\* the test of draw() that chooses the indexed draw call
DrawIndexed_NameOnly(m_index_buffer_name, m_draw_items_count) == m_index_buffer_name # 0

\* the test of draw() that chooses the indexed draw call
DrawIndexed(m_index_buffer_name, m_draw_items_count) ==
    m_index_buffer_name # 0 /\ m_draw_items_count # 0

\* the native calls of VertexArrayObject::draw on an object with the members m
DrawCalls(m, instance_cnt) ==
    <<Call("glBindVertexArray", <<m.m_va_handle>>),
      IF DrawIndexed(m.m_index_buffer_name, m.m_draw_items_count)
      THEN Call("glDrawElementsInstanced",
                <<m.m_primitive_type, m.m_draw_items_count, m.m_index_type, "nullptr",
                  instance_cnt>>)
      ELSE Call("glDrawArraysInstanced",
                <<m.m_primitive_type, 0, m.m_draw_items_count, instance_cnt>>),
      Call("glBindVertexArray", <<0>>)>>

\* VertexArrayObject::draw
draw ==
    /\ pc = "vao_alive"
    /\ ops < MaxOps
    /\ ops' = ops + 1
    /\ \E instance_cnt \in InstanceCounts :
        gl_calls' = gl_calls \o DrawCalls(vao, instance_cnt)
    /\ UNCHANGED <<pc, gl_error, gl_info_log, cerr, exception, shaderList, shader_idx, glsl, vao, layout, tex, ssbo, tex_args, objects, call, vao_args>>

\* the getters of VertexArrayObject
getVertexLayouts == vao.m_vertex_descriptor
getDrawItemsCount == vao.m_draw_items_count
getIndexType == vao.m_index_type
getPrimitiveType == vao.m_primitive_type

(***************************************************************************)
(* A client that builds with GLOWL_ALLOW_OBJECT_MOVE: it constructs        *)
(* several VertexArrayObjects, moves them and destroys them.  objects      *)
(* lists them in the order of their construction.  The driver hands out    *)
(* every name once.                                                        *)
(***************************************************************************)
MaxSteps == 3

\* the default member initialisers; "0" is the GLenum of value 0
DefaultMembers ==
    [m_va_handle |-> 0,
     m_vertex_descriptor |-> <<>>,
     m_primitive_type |-> "0",
     m_draw_items_count |-> 0,
     m_index_type |-> "0",
     m_index_buffer_name |-> 0]

\* the constructor arguments of this client; the last descriptor has an invalid attribute
MoveArgs ==
    {[vertex_descriptor |-> <<>>, draw_items_count |-> 0, index_buffer_name |-> 0,
      index_data_type |-> "GL_UNSIGNED_INT", primitive_type |-> "GL_TRIANGLES"],
     [vertex_descriptor |->
        <<VertexLayout(5, 12, 0, <<Attribute(3, "GL_FLOAT", FALSE, 0, "GL_FLOAT")>>)>>,
      draw_items_count |-> 3, index_buffer_name |-> 9,
      index_data_type |-> "GL_UNSIGNED_SHORT", primitive_type |-> "GL_LINES"],
     [vertex_descriptor |->
        <<VertexLayout(5, 12, 0, <<Attribute(2, "GL_SHORT", TRUE, 8, "GL_BYTE")>>)>>,
      draw_items_count |-> 3, index_buffer_name |-> 9,
      index_data_type |-> "GL_UNSIGNED_SHORT", primitive_type |-> "GL_LINES"]}

Object(members) == [live |-> TRUE, m |-> members]
Live == {o \in 1..Len(objects) : objects[o].live}

\* the name glCreateVertexArrays answers with
NewVertexArrayName(t) == Cardinality(CallsOf(t, "glCreateVertexArrays")) + 1

\* VertexArrayObject::VertexArrayObject(vertex_descriptor, ...), createVertexArray and
\* checkError included; no object exists when it throws
VertexArrayObject_construct ==
    /\ pc \in {"start", "vao_moves"}
    /\ ops < MaxSteps
    /\ ops' = ops + 1
    /\ pc' = "vao_moves"
    /\ \E a \in MoveArgs, err \in GLErrors :
        LET va == NewVertexArrayName(gl_calls)
            made == createVertexArray(va, a.vertex_descriptor, a.index_buffer_name)
            flag == RaiseError(gl_error, err)
            members == [m_va_handle |-> va,
                        m_vertex_descriptor |-> a.vertex_descriptor,
                        m_primitive_type |-> a.primitive_type,
                        m_draw_items_count |-> a.draw_items_count,
                        m_index_type |-> a.index_data_type,
                        m_index_buffer_name |-> a.index_buffer_name]
        IN  IF made.thrown
            THEN /\ gl_calls' = gl_calls \o made.calls
                 /\ gl_error' = flag
                 /\ exception' = Throw("MeshException", InvalidInputType)
                 /\ UNCHANGED objects
            ELSE /\ gl_calls' = gl_calls \o made.calls \o <<Call("glGetError", <<flag>>)>>
                 /\ gl_error' = "GL_NO_ERROR"
                 /\ IF flag # "GL_NO_ERROR"
                    THEN /\ exception' = Throw("MeshException",
                                               <<"Mesh::Mesh - OpenGL error ", flag>>)
                         /\ UNCHANGED objects
                    ELSE /\ exception' = NoException
                         /\ objects' = Append(objects, Object(members))
    /\ UNCHANGED <<gl_info_log, cerr, shaderList, shader_idx, glsl, vao, layout, tex, ssbo, tex_args, call, vao_args>>

\* VertexArrayObject::VertexArrayObject()
VertexArrayObject_default ==
    /\ pc \in {"start", "vao_moves"}
    /\ ops < MaxSteps
    /\ ops' = ops + 1
    /\ pc' = "vao_moves"
    /\ objects' = Append(objects, Object(DefaultMembers))
    /\ UNCHANGED <<gl_calls, gl_error, gl_info_log, cerr, exception, shaderList, shader_idx, glsl, vao, layout, tex, ssbo, tex_args, call, vao_args>>

\* VertexArrayObject::swap between the objects this and other
swap(objs, this, other) ==
    [objs EXCEPT ![this].m = objs[other].m, ![other].m = objs[this].m]

\* VertexArrayObject(VertexArrayObject&& other): default member initialisers, then swap
VertexArrayObject_move ==
    /\ pc = "vao_moves"
    /\ ops < MaxSteps
    /\ ops' = ops + 1
    /\ \E other \in Live :
        LET objs == Append(objects, Object(DefaultMembers))
        IN  objects' = swap(objs, Len(objs), other)
    /\ UNCHANGED <<pc, gl_calls, gl_error, gl_info_log, cerr, exception, shaderList, shader_idx, glsl, vao, layout, tex, ssbo, tex_args, call, vao_args>>

\* VertexArrayObject& operator=(VertexArrayObject&& other), other may be *this
move_assign ==
    /\ pc = "vao_moves"
    /\ ops < MaxSteps
    /\ ops' = ops + 1
    /\ \E this \in Live, other \in Live : objects' = swap(objects, this, other)
    /\ UNCHANGED <<pc, gl_calls, gl_error, gl_info_log, cerr, exception, shaderList, shader_idx, glsl, vao, layout, tex, ssbo, tex_args, call, vao_args>>

\* VertexArrayObject::~VertexArrayObject of one of the objects
VertexArrayObject_destroy ==
    /\ pc = "vao_moves"
    /\ \E this \in Live :
        /\ gl_calls' = Append(gl_calls,
                              Call("glDeleteVertexArrays", <<1, objects[this].m.m_va_handle>>))
        /\ objects' = [objects EXCEPT ![this].live = FALSE]
    /\ UNCHANGED <<pc, ops, gl_error, gl_info_log, cerr, exception, shaderList, shader_idx, glsl, vao, layout, tex, ssbo, tex_args, call, vao_args>>

(***************************************************************************)
(* The functions of VertexLayout.hpp.  The client calls one of them; call  *)
(* holds the arguments and, once it has returned, the result.              *)
(***************************************************************************)
MaxAttribs == 2

\* bool operator==(VertexLayout::Attribute const&, VertexLayout::Attribute const&),
\* leaving normalized out
Attribute_eq_NoNormalized(lhs, rhs) ==
    /\ lhs.offset = rhs.offset
    /\ lhs.size = rhs.size
    /\ lhs.type = rhs.type
    /\ lhs.shader_input_type = rhs.shader_input_type

\* bool operator==(VertexLayout::Attribute const&, VertexLayout::Attribute const&)
Attribute_eq(lhs, rhs) ==
    /\ lhs.normalized = rhs.normalized
    /\ lhs.offset = rhs.offset
    /\ lhs.size = rhs.size
    /\ lhs.type = rhs.type
    /\ lhs.shader_input_type = rhs.shader_input_type

\* the loop of operator==(VertexLayout const&, VertexLayout const&) from position i on
RECURSIVE CompareLoop(_, _, _, _)
CompareLoop(lhs, rhs, i, rtn) ==
    IF i > Len(lhs.attributes) THEN rtn
    ELSE CompareLoop(lhs, rhs, i + 1, rtn /\ Attribute_eq(lhs.attributes[i], rhs.attributes[i]))

\* bool operator==(VertexLayout const&, VertexLayout const&)
VertexLayout_eq(lhs, rhs) ==
    LET rtn == lhs.stride = rhs.stride
    IN  IF Len(lhs.attributes) = Len(rhs.attributes)
        THEN CompareLoop(lhs, rhs, 1, rtn)
        ELSE FALSE

\* std::size_t computeByteSize(GLenum), with GL_HALF_FLOAT taken for a float
computeByteSize_HalfAsFloat(value_type) ==
    CASE value_type \in {"GL_BYTE", "GL_UNSIGNED_BYTE"} -> 1
      [] value_type \in {"GL_SHORT", "GL_UNSIGNED_SHORT"} -> 2
      [] value_type = "GL_DOUBLE" -> 8
      [] OTHER -> 4

\* std::size_t computeByteSize(GLenum value_type)
computeByteSize(value_type) ==
    CASE value_type = "GL_BYTE" -> 1
      [] value_type = "GL_SHORT" -> 2
      [] value_type = "GL_INT" -> 4
      [] value_type = "GL_FIXED" -> 4
      [] value_type = "GL_FLOAT" -> 4
      [] value_type = "GL_HALF_FLOAT" -> 2
      [] value_type = "GL_DOUBLE" -> 8
      [] value_type = "GL_UNSIGNED_BYTE" -> 1
      [] value_type = "GL_UNSIGNED_SHORT" -> 2
      [] value_type = "GL_UNSIGNED_INT" -> 4
      [] value_type = "GL_INT_2_10_10_10_REV" -> 4
      [] value_type = "GL_UNSIGNED_INT_2_10_10_10_REV" -> 4
      [] value_type = "GL_UNSIGNED_INT_10F_11F_11F_REV" -> 4
      [] OTHER -> 0

\* std::size_t computeAttributeByteSize(VertexLayout::Attribute attrib_desc); the
\* component count is positive, so its conversion to std::size_t keeps it
computeAttributeByteSize(attrib_desc) == computeByteSize(attrib_desc.type) * attrib_desc.size

\* the value types of the client; GL_BOOL and GL_NONE are none of computeByteSize's cases
ValueTypes ==
    {"GL_BYTE", "GL_SHORT", "GL_INT", "GL_FIXED", "GL_FLOAT", "GL_HALF_FLOAT", "GL_DOUBLE",
     "GL_UNSIGNED_BYTE", "GL_UNSIGNED_SHORT", "GL_UNSIGNED_INT", "GL_INT_2_10_10_10_REV",
     "GL_UNSIGNED_INT_2_10_10_10_REV", "GL_UNSIGNED_INT_10F_11F_11F_REV", "GL_BOOL", "GL_NONE"}
ComponentCounts == 1..4

\* the attribute lists the client compares: i tightly packed vec3 attributes, and the
\* same with one field of one attribute changed
PackedAttribute(i) == Attribute(3, "GL_FLOAT", FALSE, 12 * (i - 1), "GL_FLOAT")
Variants(a) ==
    {[a EXCEPT !.size = 2], [a EXCEPT !.type = "GL_INT"], [a EXCEPT !.normalized = TRUE],
     [a EXCEPT !.offset = a.offset + 4], [a EXCEPT !.shader_input_type = "GL_INT"]}
PackedAttributes(n) == [i \in 1..n |-> PackedAttribute(i)]
ChangedAt(n, i) == {[PackedAttributes(n) EXCEPT ![i] = v] : v \in Variants(PackedAttribute(i))}
AttributeLists ==
    UNION {{PackedAttributes(n)} \cup UNION {ChangedAt(n, i) : i \in 1..n} : n \in 0..MaxAttribs}

\* the layouts the client compares
ComparedLayouts ==
    {VertexLayout(b[1], stride, b[2], a) :
        b \in {<<5, 0>>, <<6, 16>>}, stride \in {12, 20}, a \in AttributeLists}

Calling(f, a) == [fn |-> f, args |-> a, returned |-> FALSE, value |-> 0]
Returned(c, v) == [c EXCEPT !.returned = TRUE, !.value = v]

\* the calls the client makes
ClientCalls ==
    {Calling("operator==", <<lhs, rhs>>) : lhs \in ComparedLayouts, rhs \in ComparedLayouts}
    \cup {Calling("computeByteSize", <<t>>) : t \in ValueTypes}
    \cup {Calling("computeAttributeByteSize", <<Attribute(n, t, FALSE, 0, "GL_FLOAT")>>) :
            n \in ComponentCounts, t \in ValueTypes}

\* operator== on two layouts returns
call_VertexLayout_eq ==
    /\ call.fn = "operator==" /\ ~call.returned
    /\ call' = Returned(call, VertexLayout_eq(call.args[1], call.args[2]))
    /\ UNCHANGED <<pc, ops, gl_calls, gl_error, gl_info_log, cerr, exception, shaderList, shader_idx, glsl, vao, layout, tex, ssbo, tex_args, objects, vao_args>>

\* computeByteSize returns
call_computeByteSize ==
    /\ call.fn = "computeByteSize" /\ ~call.returned
    /\ call' = Returned(call, computeByteSize(call.args[1]))
    /\ UNCHANGED <<pc, ops, gl_calls, gl_error, gl_info_log, cerr, exception, shaderList, shader_idx, glsl, vao, layout, tex, ssbo, tex_args, objects, vao_args>>

\* computeAttributeByteSize returns
call_computeAttributeByteSize ==
    /\ call.fn = "computeAttributeByteSize" /\ ~call.returned
    /\ call' = Returned(call, computeAttributeByteSize(call.args[1]))
    /\ UNCHANGED <<pc, ops, gl_calls, gl_error, gl_info_log, cerr, exception, shaderList, shader_idx, glsl, vao, layout, tex, ssbo, tex_args, objects, vao_args>>

(***************************************************************************)
(* TextureLayout, Texture and Texture2DArray.  The client passes           *)
(* non-negative dimensions, which the conversions int -> unsigned int ->   *)
(* GLsizei leave unchanged.                                                *)
(***************************************************************************)
TextureLayout(internal_format, width, height, depth, format, type, levels, int_parameters, float_parameters) ==
    [internal_format |-> internal_format, width |-> width, height |-> height,
     depth |-> depth, format |-> format, type |-> type, levels |-> levels,
     int_parameters |-> int_parameters, float_parameters |-> float_parameters]

TextureLayouts ==
    {TextureLayout("GL_RGBA8", w, h, d, "GL_RGBA", "GL_UNSIGNED_BYTE", l, ip, fp) :
        w \in {0, 1, 4}, h \in {0, 2}, d \in {1, 3}, l \in {1, 2, 5},
        ip \in {<<>>, <<<<"GL_TEXTURE_MIN_FILTER", "GL_LINEAR">>,
                        <<"GL_TEXTURE_WRAP_S", "GL_REPEAT">>>>},
        fp \in {<<>>, <<<<"GL_TEXTURE_MAX_ANISOTROPY_EXT", 4>>>>}}

TextureNames == {3}
Data == {"nullptr", "data"}

\* floor(log2(n)) for n >= 1
RECURSIVE FloorLog2(_)
FloorLog2(n) == IF n <= 1 THEN 0 ELSE 1 + FloorLog2(n \div 2)

\* 1 + static_cast<GLsizei>(floor(log2(0))): the conversion of minus infinity is undefined
UndefinedLevels == {-2147483647, 1}

\* a level count taken from the layout as it is
StorageLevels_Unclamped(layout_levels, m_width, m_height) == {layout_levels}

\* the values the constructor's local `levels` can take
StorageLevels(layout_levels, m_width, m_height) ==
    IF Max(m_width, m_height) >= 1
    THEN {Min(layout_levels, 1 + FloorLog2(Max(m_width, m_height)))}
    ELSE {Min(layout_levels, u) : u \in UndefinedLevels}

\* the glTexParameter calls for a parameter list, last pair first
ParameterCalls_Reversed(fn, parameters) ==
    [i \in 1..Len(parameters) |->
        Call(fn, <<"GL_TEXTURE_2D_ARRAY", parameters[Len(parameters) + 1 - i][1],
                   parameters[Len(parameters) + 1 - i][2]>>)]

\* the glTexParameteri / glTexParameterf calls of a parameter list
ParameterCalls(fn, parameters) ==
    [i \in 1..Len(parameters) |->
        Call(fn, <<"GL_TEXTURE_2D_ARRAY", parameters[i][1], parameters[i][2]>>)]

\* Texture2DArray::Texture2DArray
Texture2DArray_ctor ==
    /\ pc = "start"
    /\ \E l \in TextureLayouts, data \in Data, generateMipmap \in BOOLEAN,
          name \in TextureNames, raised \in GLErrors :
       \E levels \in StorageLevels(l.levels, l.width, l.height) :
        LET err == RaiseError(gl_error, raised)
            m == [m_id |-> "id",
                  m_name |-> name,
                  m_texture_handle |-> name + 100,
                  m_internal_format |-> l.internal_format,
                  m_format |-> l.format,
                  m_type |-> l.type,
                  m_levels |-> l.levels,
                  m_width |-> l.width,
                  m_height |-> l.height,
                  m_layers |-> l.depth]
        IN  /\ layout' = l
            /\ tex_args' = [data |-> data, generateMipmap |-> generateMipmap]
            /\ tex' = m
            /\ gl_calls' = gl_calls
                \o <<Call("glGenTextures", <<1, name>>),
                     Call("glBindTexture", <<"GL_TEXTURE_2D_ARRAY", name>>)>>
                \o ParameterCalls("glTexParameteri", l.int_parameters)
                \o ParameterCalls("glTexParameterf", l.float_parameters)
                \o <<Call("glTexStorage3D",
                          <<"GL_TEXTURE_2D_ARRAY", levels, m.m_internal_format,
                            m.m_width, m.m_height, m.m_layers>>)>>
                \o (IF data # "nullptr"
                    THEN <<Call("glTexSubImage3D",
                                <<"GL_TEXTURE_2D_ARRAY", 0, 0, 0, 0, m.m_width, m.m_height,
                                  m.m_layers, m.m_format, m.m_type, data>>)>>
                    ELSE <<>>)
                \o (IF generateMipmap
                    THEN <<Call("glGenerateMipmap", <<"GL_TEXTURE_2D_ARRAY">>)>>
                    ELSE <<>>)
                \o <<Call("glGetTextureHandleARB", <<name, name + 100>>),
                     Call("glBindTexture", <<"GL_TEXTURE_2D_ARRAY", 0>>),
                     Call("glGetError", <<err>>)>>
            /\ gl_error' = "GL_NO_ERROR"
            /\ cerr' = IF err # "GL_NO_ERROR"
                       THEN Append(cerr, <<"GL error during array texture (id: ", "id",
                                           ") creation: ", err>>)
                       ELSE cerr
    /\ pc' = "tex_alive"
    /\ UNCHANGED <<ops, gl_info_log, exception, shaderList, shader_idx, glsl, vao, ssbo, objects, call, vao_args>>

\* Texture2DArray::getTextureLayout with height and depth in each other's place
getTextureLayout_DepthHeight ==
    TextureLayout(tex.m_internal_format, tex.m_width, tex.m_layers, tex.m_height,
                  tex.m_format, tex.m_type, tex.m_levels, <<>>, <<>>)

\* Texture2DArray::getTextureLayout: the constructor of TextureLayout it calls takes no
\* parameter lists
getTextureLayout ==
    TextureLayout(tex.m_internal_format, tex.m_width, tex.m_height, tex.m_layers,
                  tex.m_format, tex.m_type, tex.m_levels, <<>>, <<>>)

\* Texture2DArray::bindTexture
bindTexture ==
    /\ pc = "tex_alive"
    /\ ops < MaxOps
    /\ ops' = ops + 1
    /\ gl_calls' = Append(gl_calls, Call("glBindTexture", <<"GL_TEXTURE_2D_ARRAY", tex.m_name>>))
    /\ UNCHANGED <<pc, gl_error, gl_info_log, cerr, exception, shaderList, shader_idx, glsl, vao, layout, tex, ssbo, tex_args, objects, call, vao_args>>

\* Texture2DArray::updateMipmaps
updateMipmaps ==
    /\ pc = "tex_alive"
    /\ ops < MaxOps
    /\ ops' = ops + 1
    /\ \E raised \in GLErrors : gl_error' = RaiseError(gl_error, raised)
    /\ gl_calls' = gl_calls
            \o <<Call("glBindTexture", <<"GL_TEXTURE_2D_ARRAY", tex.m_name>>),
                 Call("glGenerateMipmap", <<"GL_TEXTURE_2D_ARRAY">>),
                 Call("glBindTexture", <<"GL_TEXTURE_2D_ARRAY", 0>>)>>
    /\ UNCHANGED <<pc, gl_info_log, cerr, exception, shaderList, shader_idx, glsl, vao, layout, tex, ssbo, tex_args, objects, call, vao_args>>

\* the image unit and the access the client binds the texture with
ImageUnits == {1}
Access == {"GL_READ_WRITE"}

\* Texture::bindImage
bindImage ==
    /\ pc = "tex_alive"
    /\ ops < MaxOps
    /\ ops' = ops + 1
    /\ \E location \in ImageUnits, access \in Access :
        gl_calls' = Append(gl_calls,
            Call("glBindImageTexture",
                 <<location, tex.m_name, 0, "GL_TRUE", 0, access, tex.m_internal_format>>))
    /\ UNCHANGED <<pc, gl_error, gl_info_log, cerr, exception, shaderList, shader_idx, glsl, vao, layout, tex, ssbo, tex_args, objects, call, vao_args>>

\* Texture::getName
getName == tex.m_name

\* Texture::~Texture
Texture_dtor ==
    /\ pc = "tex_alive"
    /\ gl_calls' = Append(gl_calls, Call("glDeleteTextures", <<1, tex.m_name>>))
    /\ pc' = "tex_destroyed"
    /\ UNCHANGED <<ops, gl_error, gl_info_log, cerr, exception, shaderList, shader_idx, glsl, vao, layout, tex, ssbo, tex_args, objects, call, vao_args>>

(***************************************************************************)
(* ShaderStorageBufferObject                                               *)
(***************************************************************************)
BufferNames == {4}
Sizes == {0, 16}
Indices == {0, 1}

\* the native calls that (re)allocate the buffer's storage
BufferDataCalls(m_handle, size, data) ==
    <<Call("glBindBuffer", <<"GL_SHADER_STORAGE_BUFFER", m_handle>>),
      Call("glBufferData", <<"GL_SHADER_STORAGE_BUFFER", size, data, "GL_DYNAMIC_DRAW">>),
      Call("glBindBuffer", <<"GL_SHADER_STORAGE_BUFFER", 0>>)>>

\* ShaderStorageBufferObject::ShaderStorageBufferObject
ShaderStorageBufferObject_ctor ==
    /\ pc = "start"
    /\ \E size \in Sizes, data \in Data, name \in BufferNames, raised \in GLErrors :
        /\ ssbo' = [m_handle |-> name, m_size |-> size, m_written_size |-> 0]
        /\ gl_calls' = gl_calls \o <<Call("glGenBuffers", <<1, name>>)>>
                                \o BufferDataCalls(name, size, data)
        /\ gl_error' = RaiseError(gl_error, raised)
    /\ pc' = "ssbo_alive"
    /\ UNCHANGED <<ops, gl_info_log, cerr, exception, shaderList, shader_idx, glsl, vao, layout, tex, tex_args, objects, call, vao_args>>

\* ShaderStorageBufferObject::reload, keeping the old size when the driver reports an error
reload_RollBack ==
    /\ pc = "ssbo_alive"
    /\ ops < MaxOps
    /\ ops' = ops + 1
    /\ \E size \in Sizes, index \in Indices, data \in Data, raised \in GLErrors :
        LET err == RaiseError(gl_error, raised)
        IN  /\ ssbo' = [ssbo EXCEPT !.m_size = IF err # "GL_NO_ERROR" THEN @ ELSE size]
            /\ gl_calls' = gl_calls \o BufferDataCalls(ssbo.m_handle, size, data)
                                    \o <<Call("glGetError", <<err>>)>>
            /\ cerr' = IF err # "GL_NO_ERROR"
                       THEN Append(cerr, <<"Error - SSBO - reload: ", err>>)
                       ELSE cerr
    /\ gl_error' = "GL_NO_ERROR"
    /\ UNCHANGED <<pc, gl_info_log, exception, shaderList, shader_idx, glsl, vao, layout, tex, tex_args, objects, call, vao_args>>

\* ShaderStorageBufferObject::reload, generating a buffer for the new storage
reload_Regenerate ==
    /\ pc = "ssbo_alive"
    /\ ops < MaxOps
    /\ ops' = ops + 1
    /\ \E size \in Sizes, index \in Indices, data \in Data, raised \in GLErrors :
        LET err == RaiseError(gl_error, raised)
            name == ssbo.m_handle + 1
        IN  /\ ssbo' = [ssbo EXCEPT !.m_size = size, !.m_handle = name]
            /\ gl_calls' = gl_calls \o <<Call("glGenBuffers", <<1, name>>)>>
                                    \o BufferDataCalls(name, size, data)
                                    \o <<Call("glGetError", <<err>>)>>
            /\ cerr' = IF err # "GL_NO_ERROR"
                       THEN Append(cerr, <<"Error - SSBO - reload: ", err>>)
                       ELSE cerr
    /\ gl_error' = "GL_NO_ERROR"
    /\ UNCHANGED <<pc, gl_info_log, exception, shaderList, shader_idx, glsl, vao, layout, tex, tex_args, objects, call, vao_args>>

\* ShaderStorageBufferObject::reload
reload ==
    /\ pc = "ssbo_alive"
    /\ ops < MaxOps
    /\ ops' = ops + 1
    /\ \E size \in Sizes, index \in Indices, data \in Data, raised \in GLErrors :
        LET err == RaiseError(gl_error, raised)
        IN  /\ ssbo' = [ssbo EXCEPT !.m_size = size]
            /\ gl_calls' = gl_calls \o BufferDataCalls(ssbo.m_handle, size, data)
                                    \o <<Call("glGetError", <<err>>)>>
            /\ cerr' = IF err # "GL_NO_ERROR"
                       THEN Append(cerr, <<"Error - SSBO - reload: ", err>>)
                       ELSE cerr
    /\ gl_error' = "GL_NO_ERROR"
    /\ UNCHANGED <<pc, gl_info_log, exception, shaderList, shader_idx, glsl, vao, layout, tex, tex_args, objects, call, vao_args>>

\* ShaderStorageBufferObject::bind()
bind ==
    /\ pc = "ssbo_alive"
    /\ ops < MaxOps
    /\ ops' = ops + 1
    /\ gl_calls' = Append(gl_calls, Call("glBindBuffer", <<"GL_SHADER_STORAGE_BUFFER", ssbo.m_handle>>))
    /\ UNCHANGED <<pc, gl_error, gl_info_log, cerr, exception, shaderList, shader_idx, glsl, vao, layout, tex, ssbo, tex_args, objects, call, vao_args>>

\* ShaderStorageBufferObject::bind(GLuint index)
bindBase ==
    /\ pc = "ssbo_alive"
    /\ ops < MaxOps
    /\ ops' = ops + 1
    /\ \E index \in Indices :
        gl_calls' = Append(gl_calls,
            Call("glBindBufferBase", <<"GL_SHADER_STORAGE_BUFFER", index, ssbo.m_handle>>))
    /\ UNCHANGED <<pc, gl_error, gl_info_log, cerr, exception, shaderList, shader_idx, glsl, vao, layout, tex, ssbo, tex_args, objects, call, vao_args>>

\* ShaderStorageBufferObject::getSize
getSize == ssbo.m_size

\* ShaderStorageBufferObject::~ShaderStorageBufferObject
ShaderStorageBufferObject_dtor ==
    /\ pc = "ssbo_alive"
    /\ gl_calls' = Append(gl_calls, Call("glDeleteBuffers", <<1, ssbo.m_handle>>))
    /\ pc' = "ssbo_destroyed"
    /\ UNCHANGED <<ops, gl_error, gl_info_log, cerr, exception, shaderList, shader_idx, glsl, vao, layout, tex, ssbo, tex_args, objects, call, vao_args>>

(***************************************************************************)
(* The client.                                                             *)
(***************************************************************************)
Init ==
    /\ pc = "start"
    /\ gl_calls = <<>>
    /\ gl_error = "GL_NO_ERROR"
    /\ gl_info_log = <<>>
    /\ cerr = <<>>
    /\ exception = NoException
    /\ ops = 0
    /\ shaderList = <<>>
    /\ shader_idx = 1
    /\ glsl = [m_handle |-> 0]
    /\ vao = [m_va_handle |-> 0,
              m_vertex_descriptor |-> <<>>,
              m_primitive_type |-> 0,
              m_draw_items_count |-> 0,
              m_index_type |-> 0,
              m_index_buffer_name |-> 0]
    /\ layout = TextureLayout(0, 0, 0, 0, 0, 0, 0, <<>>, <<>>)
    /\ tex = [m_id |-> "", m_name |-> 0, m_texture_handle |-> 0, m_internal_format |-> 0,
              m_format |-> 0, m_type |-> 0, m_levels |-> 0, m_width |-> 0, m_height |-> 0,
              m_layers |-> 0]
    /\ ssbo = [m_handle |-> 0, m_size |-> 0, m_written_size |-> 0]
    /\ tex_args = [data |-> "nullptr", generateMipmap |-> FALSE]
    /\ objects = <<>>
    /\ call = NoCall
    /\ vao_args = NoArgs

Next ==
    \/ GLSLProgram_ctor
    \/ compileShaderFromString
    \/ link
    \/ GLSLProgram_catch
    \/ use
    \/ GLSLProgram_dtor
    \/ VertexArrayObject_ctor
    \/ checkError
    \/ VertexArrayObject_dtor
    \/ Texture2DArray_ctor
    \/ bindTexture
    \/ updateMipmaps
    \/ bindImage
    \/ Texture_dtor
    \/ ShaderStorageBufferObject_ctor
    \/ reload
    \/ bind
    \/ bindBase
    \/ ShaderStorageBufferObject_dtor

Spec == Init /\ [][Next]_vars

\* the client that constructs one VertexArrayObject, binds and draws it
NextVAO ==
    \/ VertexArrayObject_ctor_all
    \/ checkError
    \/ VertexArrayObject_bind
    \/ draw
    \/ VertexArrayObject_dtor

SpecVAO == Init /\ [][NextVAO]_vars

\* the client that constructs, moves and destroys VertexArrayObjects
NextMove ==
    \/ VertexArrayObject_construct
    \/ VertexArrayObject_default
    \/ VertexArrayObject_move
    \/ move_assign
    \/ VertexArrayObject_destroy

SpecMove == Init /\ [][NextMove]_vars

\* the client that calls one function of VertexLayout.hpp on arguments of its choice
InitLayout ==
    /\ pc = "start"
    /\ gl_calls = <<>>
    /\ gl_error = "GL_NO_ERROR"
    /\ gl_info_log = <<>>
    /\ cerr = <<>>
    /\ exception = NoException
    /\ ops = 0
    /\ shaderList = <<>>
    /\ shader_idx = 1
    /\ glsl = [m_handle |-> 0]
    /\ vao = [m_va_handle |-> 0,
              m_vertex_descriptor |-> <<>>,
              m_primitive_type |-> 0,
              m_draw_items_count |-> 0,
              m_index_type |-> 0,
              m_index_buffer_name |-> 0]
    /\ layout = TextureLayout(0, 0, 0, 0, 0, 0, 0, <<>>, <<>>)
    /\ tex = [m_id |-> "", m_name |-> 0, m_texture_handle |-> 0, m_internal_format |-> 0,
              m_format |-> 0, m_type |-> 0, m_levels |-> 0, m_width |-> 0, m_height |-> 0,
              m_layers |-> 0]
    /\ ssbo = [m_handle |-> 0, m_size |-> 0, m_written_size |-> 0]
    /\ tex_args = [data |-> "nullptr", generateMipmap |-> FALSE]
    /\ objects = <<>>
    /\ call \in ClientCalls
    /\ vao_args = NoArgs

NextLayout ==
    \/ call_VertexLayout_eq
    \/ call_computeByteSize
    \/ call_computeAttributeByteSize

SpecLayout == InitLayout /\ [][NextLayout]_vars


(***************************************************************************)
(* Properties of GLSLProgram.                                              *)
(***************************************************************************)
\* the constructor has returned or thrown
GLSLConstructed == pc \in {"glsl_alive", "glsl_destroyed"}
GLSLThrown == pc \in {"glsl_catch", "glsl_thrown"}
GLSLLives == pc \in {"glsl_try", "glsl_catch", "glsl_thrown", "glsl_alive", "glsl_destroyed"}

\* the handle glCreateProgram returned
CreatedProgram == gl_calls[1].args[1]

Count(t, f) == Cardinality(CallsOf(t, f))

\* the entries of the list whose source string is empty
EmptyEntries == {i \in 1..Len(shaderList) : Len(shaderList[i][2]) = 0}
FirstEmpty == CHOOSE i \in EmptyEntries : \A j \in EmptyEntries : i <= j

\* the shaders the driver reported as compiled, and those it reported as failed
CompiledOK(t) == {i \in CallsOf(t, "glGetShaderiv") :
                    t[i].args[2] = "GL_COMPILE_STATUS" /\ t[i].args[3] = TRUE}
CompileFailed(t) == {i \in CallsOf(t, "glGetShaderiv") :
                    t[i].args[2] = "GL_COMPILE_STATUS" /\ t[i].args[3] = FALSE}
LinkedOK(t) == {i \in CallsOf(t, "glGetProgramiv") :
                    t[i].args[2] = "GL_LINK_STATUS" /\ t[i].args[3] = TRUE}
LinkFailed(t) == {i \in CallsOf(t, "glGetProgramiv") :
                    t[i].args[2] = "GL_LINK_STATUS" /\ t[i].args[3] = FALSE}

\* C1: the program handle obtained from glCreateProgram is passed to
\* glDeleteProgram exactly once over the object's lifetime: by the
\* constructor's catch block when compilation or linking throws (the
\* destructor never runs then), otherwise by the destructor; never twice,
\* never left undeleted, and no other handle is deleted.
C1_ProgramDeletedExactlyOnce ==
    GLSLLives =>
        LET dels == CallsOf(gl_calls, "glDeleteProgram")
        IN  /\ Count(gl_calls, "glCreateProgram") = 1
            /\ \A i \in dels : gl_calls[i].args[1] = CreatedProgram
            /\ pc \in {"glsl_try", "glsl_catch", "glsl_alive"} => dels = {}
            /\ pc \in {"glsl_thrown", "glsl_destroyed"} => Cardinality(dels) = 1
            /\ pc = "glsl_thrown" => exception.type = "GLSLProgramException"
            /\ pc = "glsl_destroyed" => exception = NoException

\* a constructor that threw at link time, after a shader was attached, has deleted its program
C1_Witness ==
    /\ pc = "glsl_thrown"
    /\ LinkFailed(gl_calls) # {}
    /\ Count(gl_calls, "glAttachShader") = 1
    /\ CreatedProgram # 0
    /\ Count(gl_calls, "glDeleteProgram") = 1

\* C8 as stated: whenever any entry of the list has an empty source, the
\* constructor throws GLSLProgramException("No shader source."), creates no
\* shader for that entry or a later one, and never links.
C8_AnyEmptyThrowsNoShaderSource ==
    (EmptyEntries # {} /\ (GLSLConstructed \/ GLSLThrown)) =>
        /\ exception = Throw("GLSLProgramException", NoShaderSource)
        /\ Count(gl_calls, "glCreateShader") < FirstEmpty
        /\ Count(gl_calls, "glLinkProgram") = 0

\* C8 (amended): when the list has an entry with an empty source, no shader
\* is created for the first such entry nor for any later one, glLinkProgram
\* is never called and the constructor throws; the exception is
\* GLSLProgramException("No shader source."), thrown at that entry, exactly
\* when every earlier entry compiled.
C8_EmptySourceThrows ==
    (GLSLLives /\ EmptyEntries # {}) =>
        /\ Count(gl_calls, "glCreateShader") < FirstEmpty
        /\ Count(gl_calls, "glLinkProgram") = 0
        /\ ~GLSLConstructed
        /\ GLSLThrown =>
            /\ exception.type = "GLSLProgramException"
            /\ (exception.what = NoShaderSource)
                 <=> (Cardinality(CompiledOK(gl_calls)) = FirstEmpty - 1)
            /\ (exception.what = NoShaderSource)
                 => /\ Count(gl_calls, "glCreateShader") = FirstEmpty - 1
                    /\ shader_idx = FirstEmpty

\* the second entry is empty, the first compiled and was attached
C8_Witness ==
    /\ pc = "glsl_thrown"
    /\ Len(shaderList) = 2
    /\ EmptyEntries = {2}
    /\ Count(gl_calls, "glAttachShader") = 1
    /\ exception.what = NoShaderSource

\* every source is non-empty, every shader compiled and the program linked
AllGood ==
    /\ EmptyEntries = {}
    /\ Cardinality(CompiledOK(gl_calls)) = Len(shaderList)
    /\ LinkedOK(gl_calls) # {}

\* C9 as stated: construction completes iff every source is non-empty, every
\* shader compiled and the program linked; in every other case the exception
\* message is the native info log of the failing shader or program.
C9_MessageIsAlwaysInfoLog ==
    (GLSLConstructed \/ GLSLThrown) =>
        /\ GLSLConstructed <=> AllGood
        /\ GLSLThrown => exception = Throw("GLSLProgramException", gl_info_log)

\* C9 (amended): construction completes iff every source is non-empty, every
\* shader compiled and the program linked; otherwise it throws
\* GLSLProgramException, whose message is "No shader source." when the
\* failing entry has an empty source, and the native info log of the failing
\* shader or program (empty when the reported length is 0) in every other case.
C9_CompletesIffAllGood ==
    (GLSLConstructed \/ GLSLThrown) =>
        /\ GLSLConstructed <=> AllGood
        /\ GLSLConstructed => exception = NoException
        /\ GLSLThrown =>
            /\ exception.type = "GLSLProgramException"
            /\ IF CompileFailed(gl_calls) = {} /\ LinkFailed(gl_calls) = {}
               THEN exception.what = NoShaderSource
               ELSE exception.what = gl_info_log

\* a shader failed to compile with a log of two characters, which is the message
C9_Witness ==
    /\ pc = "glsl_thrown"
    /\ CompileFailed(gl_calls) # {}
    /\ Len(gl_info_log) = MaxLogLen
    /\ exception.what = gl_info_log

\* C10: every shader created by glCreateShader is passed to glDeleteShader
\* exactly once before compileShaderFromString returns or throws; it is
\* attached (once, to the program) iff its compilation succeeded, and then
\* the attach precedes the delete.
C10_ShaderLifetime ==
    \A i \in CallsOf(gl_calls, "glCreateShader") :
        LET shader == gl_calls[i].args[2]
            dels == CallsOn(gl_calls, "glDeleteShader", 1, shader)
            atts == CallsOn(gl_calls, "glAttachShader", 2, shader)
            ok == \E k \in CompiledOK(gl_calls) : gl_calls[k].args[1] = shader
            \* the calls of later operations: the next compile, the link, the program's deletion
            later == {k \in i+1..Len(gl_calls) :
                        gl_calls[k].fn \in {"glCreateShader", "glLinkProgram",
                                            "glDeleteProgram", "glUseProgram"}}
        IN  /\ Cardinality(dels) = 1
            /\ \A d \in dels : d > i /\ \A k \in later : d < k
            /\ Cardinality(atts) = (IF ok THEN 1 ELSE 0)
            /\ \A a \in atts : /\ gl_calls[a].args[1] = glsl.m_handle
                               /\ \A d \in dels : i < a /\ a < d

\* one shader compiled and one failed: both deleted, only the first attached
C10_Witness ==
    /\ Count(gl_calls, "glCreateShader") = 2
    /\ Cardinality(CompileFailed(gl_calls)) = 1
    /\ Count(gl_calls, "glDeleteShader") = 2
    /\ Count(gl_calls, "glAttachShader") = 1

(***************************************************************************)
(* Properties of VertexArrayObject.                                        *)
(***************************************************************************)
VAOLives == pc \in {"vao_checkError", "vao_thrown", "vao_alive", "vao_destroyed"}

\* the number of attributes of the first i layouts of descriptor d
RECURSIVE AttribCount(_, _)
AttribCount(d, i) == IF i = 0 THEN 0 ELSE AttribCount(d, i - 1) + Len(d[i].attributes)

\* the layout (counted from 1) that holds the attribute with global index k (counted from 0)
LayoutOf(d, k) ==
    CHOOSE i \in 1..Len(d) : AttribCount(d, i - 1) <= k /\ k < AttribCount(d, i)

\* the attribute with global index k
AttributeAt(d, k) == d[LayoutOf(d, k)].attributes[k - AttribCount(d, LayoutOf(d, k) - 1) + 1]

\* the global indices of the attributes with an invalid shader input type
InvalidAttribs(d) ==
    {k \in 0..AttribCount(d, Len(d)) - 1 :
        AttributeAt(d, k).shader_input_type
            \notin {"GL_FLOAT", "GL_INT", "GL_UNSIGNED_INT", "GL_DOUBLE"}}

\* the index of the last attribute the loops reach: the first invalid one, or the last of all
LastReached(d) ==
    IF InvalidAttribs(d) = {} THEN AttribCount(d, Len(d)) - 1
    ELSE CHOOSE k \in InvalidAttribs(d) : \A m \in InvalidAttribs(d) : k <= m

\* the number of layouts the loop reaches
LayoutsReached(d) ==
    IF InvalidAttribs(d) = {} THEN Len(d) ELSE LayoutOf(d, LastReached(d))

FormatFns == {"glVertexArrayAttribFormat", "glVertexArrayAttribIFormat",
              "glVertexArrayAttribLFormat"}
AttribFns == FormatFns \cup {"glEnableVertexArrayAttrib", "glVertexArrayAttribBinding"}

CallsIn(t, fns) == SelectSeq(t, LAMBDA c : c.fn \in fns)

\* C2 as stated: when VertexArrayObject construction fails, the vertex array
\* created by glCreateVertexArrays is destroyed by a matching
\* glDeleteVertexArrays call.
C2_FailedConstructionDeletes ==
    pc = "vao_thrown" =>
        Cardinality(CallsOn(gl_calls, "glDeleteVertexArrays", 2, vao.m_va_handle)) = 1

\* C4: every attribute the loop reaches is dispatched on its shader_input_type
\* to exactly one format call: GL_FLOAT to glVertexArrayAttribFormat (size,
\* type, normalized, offset), GL_INT and GL_UNSIGNED_INT to
\* glVertexArrayAttribIFormat, GL_DOUBLE to glVertexArrayAttribLFormat (size,
\* type, offset; normalized dropped); any other shader_input_type issues no
\* format call and throws MeshException.
C4_FormatDispatch ==
    VAOLives =>
        LET d == vao.m_vertex_descriptor
            va == vao.m_va_handle
        IN  \A k \in 0..AttribCount(d, Len(d)) - 1 :
              LET a == AttributeAt(d, k)
                  fmts == {i \in 1..Len(gl_calls) :
                             gl_calls[i].fn \in FormatFns /\ gl_calls[i].args[2] = k}
                  one(fn, args) == \E i \in fmts :
                      /\ fmts = {i}
                      /\ gl_calls[i].fn = fn
                      /\ gl_calls[i].args = args
              IN  IF k > LastReached(d) THEN fmts = {}
                  ELSE CASE a.shader_input_type = "GL_FLOAT" ->
                              one("glVertexArrayAttribFormat",
                                  <<va, k, a.size, a.type, a.normalized, a.offset>>)
                         [] a.shader_input_type \in {"GL_INT", "GL_UNSIGNED_INT"} ->
                              one("glVertexArrayAttribIFormat",
                                  <<va, k, a.size, a.type, a.offset>>)
                         [] a.shader_input_type = "GL_DOUBLE" ->
                              one("glVertexArrayAttribLFormat",
                                  <<va, k, a.size, a.type, a.offset>>)
                         [] OTHER ->
                              /\ fmts = {}
                              /\ pc = "vao_thrown"
                              /\ exception = Throw("MeshException", InvalidInputType)

\* an integer attribute, a double attribute and then an invalid one were dispatched
C4_Witness ==
    /\ pc = "vao_thrown"
    /\ Count(gl_calls, "glVertexArrayAttribIFormat") = 1
    /\ Count(gl_calls, "glVertexArrayAttribLFormat") = 1
    /\ Count(gl_calls, "glEnableVertexArrayAttrib") = 3
    /\ exception.what = InvalidInputType

\* C5: for a list of layouts with only valid shader input types, the j-th
\* attribute of layout i gets attribute index (number of attributes of the
\* layouts before i) + j, so the indices used are exactly 0..N-1 in order,
\* without gap or repeat, and each attribute is bound with
\* glVertexArrayAttribBinding to binding index i, the position of its layout.
C5_GlobalAttribIndices ==
    (VAOLives /\ InvalidAttribs(vao.m_vertex_descriptor) = {}) =>
        LET d == vao.m_vertex_descriptor
            va == vao.m_va_handle
            N == AttribCount(d, Len(d))
            enables == CallsIn(gl_calls, {"glEnableVertexArrayAttrib"})
            formats == CallsIn(gl_calls, FormatFns)
            bindings == CallsIn(gl_calls, {"glVertexArrayAttribBinding"})
        IN  /\ Len(enables) = N /\ Len(formats) = N /\ Len(bindings) = N
            /\ \A n \in 1..N : enables[n].args = <<va, n - 1>>
            /\ \A i \in 1..Len(d) : \A j \in 1..Len(d[i].attributes) :
                 LET k == AttribCount(d, i - 1) + (j - 1)
                     a == d[i].attributes[j]
                 IN  /\ formats[k + 1].args[2] = k
                     /\ formats[k + 1].args[3] = a.size
                     /\ formats[k + 1].args[4] = a.type
                     /\ bindings[k + 1].args = <<va, k, i - 1>>

\* two layouts of one attribute each: the second attribute has index 1 and binding 1
C5_Witness ==
    /\ pc = "vao_alive"
    /\ Len(vao.m_vertex_descriptor) = 2
    /\ \A i \in 1..2 : Len(vao.m_vertex_descriptor[i].attributes) = 1
    /\ InvalidAttribs(vao.m_vertex_descriptor) = {}
    /\ \E i \in CallsOf(gl_calls, "glVertexArrayAttribBinding") :
           gl_calls[i].args = <<vao.m_va_handle, 1, 1>>

\* the vertex buffer calls are those of the first n layouts, in order and with the
\* layouts' own buffer, offset and stride, and the attribute calls of each layout lie
\* between its vertex buffer call and the next
VertexBufferCalls(n) ==
    LET d == vao.m_vertex_descriptor
        va == vao.m_va_handle
        buffers == CallsIn(gl_calls, {"glVertexArrayVertexBuffer"})
        pos(i) == CHOOSE p \in CallsOf(gl_calls, "glVertexArrayVertexBuffer") :
                      gl_calls[p].args[2] = i - 1
    IN  /\ Len(buffers) = n
        /\ \A i \in 1..n :
             /\ buffers[i].args = <<va, i - 1, d[i].buffer_name,
                                    d[i].buffer_start_offset, d[i].stride>>
             /\ \A p \in 1..Len(gl_calls) :
                  (/\ gl_calls[p].fn \in AttribFns
                   /\ gl_calls[p].args[2] < AttribCount(d, Len(d))
                   /\ LayoutOf(d, gl_calls[p].args[2]) = i)
                  => /\ pos(i) < p
                     /\ i < n => p < pos(i + 1)

\* C7 as stated: for every list of vertex layouts there is exactly one
\* glVertexArrayVertexBuffer call per layout, in list order, with the
\* layout's position as binding index and its buffer_name,
\* buffer_start_offset and stride; the call of a layout precedes its
\* attribute calls and follows those of the layout before it.
C7_OneVertexBufferPerLayout ==
    VAOLives => VertexBufferCalls(Len(vao.m_vertex_descriptor))

\* C7 (amended): the same for every layout up to and including the first
\* one that holds an attribute with an invalid shader_input_type (for every
\* layout when there is none); the layouts after it get no call.
C7_OneVertexBufferPerLayoutReached ==
    VAOLives => VertexBufferCalls(LayoutsReached(vao.m_vertex_descriptor))

\* two layouts over different buffers, the first with an attribute
C7_Witness ==
    /\ pc = "vao_alive"
    /\ Len(vao.m_vertex_descriptor) = 2
    /\ vao.m_vertex_descriptor[1].buffer_name # vao.m_vertex_descriptor[2].buffer_name
    /\ Len(vao.m_vertex_descriptor[1].attributes) = 1
    /\ Count(gl_calls, "glVertexArrayVertexBuffer") = 2

(***************************************************************************)
(* Properties of the error checks and of Texture2DArray.                   *)
(***************************************************************************)
\* C3 as stated: after every wrapper operation that issues mutating native
\* calls (the constructors of ShaderStorageBufferObject, Texture2DArray and
\* VertexArrayObject, reload, updateMipmaps) the native error code has been
\* read with glGetError before the operation returns, and a non-zero code
\* was printed to std::cerr or raised as an exception.
C3_ErrorReadBeforeReturn ==
    /\ pc \in {"ssbo_alive", "tex_alive", "vao_alive"} => gl_error = "GL_NO_ERROR"
    /\ (pc \in {"ssbo_alive", "tex_alive", "vao_alive"} /\ ops = 0)
            => gl_calls[Len(gl_calls)].fn = "glGetError"
    /\ \A i \in CallsOf(gl_calls, "glGetError") :
            gl_calls[i].args[1] # "GL_NO_ERROR" => (cerr # <<>> \/ exception # NoException)

TextureConstructed == pc \in {"tex_alive", "tex_destroyed"}

\* the only glTexStorage3D call of the trace
StorageCall == gl_calls[CHOOSE i \in CallsOf(gl_calls, "glTexStorage3D") : TRUE]

\* C6 as stated, on the layouts whose level computation is defined:
\* glTexStorage3D receives exactly layout.levels, layout.internal_format,
\* layout.width, layout.height and layout.depth.
C6_StorageVerbatim ==
    (TextureConstructed /\ (layout.width >= 1 \/ layout.height >= 1)) =>
        /\ Count(gl_calls, "glTexStorage3D") = 1
        /\ StorageCall.args = <<"GL_TEXTURE_2D_ARRAY", layout.levels, layout.internal_format,
                                layout.width, layout.height, layout.depth>>

\* C6 (amended): glTexStorage3D receives layout.internal_format,
\* layout.width, layout.height and layout.depth as they are, and as level
\* count the smaller of layout.levels and 1 + floor(log2(max(width, height)))
\* whenever max(width, height) >= 1 (so layout.levels itself only when it
\* does not exceed the number of mip levels the dimensions allow).
C6_StorageLevelsClamped ==
    TextureConstructed =>
        LET m == IF layout.width >= layout.height THEN layout.width ELSE layout.height
            log == CHOOSE n \in 0..30 : 2^n <= m /\ m < 2^(n + 1)
        IN  /\ Count(gl_calls, "glTexStorage3D") = 1
            /\ StorageCall.args[1] = "GL_TEXTURE_2D_ARRAY"
            /\ StorageCall.args[3] = layout.internal_format
            /\ StorageCall.args[4] = layout.width
            /\ StorageCall.args[5] = layout.height
            /\ StorageCall.args[6] = layout.depth
            /\ m >= 1 => StorageCall.args[2] =
                            (IF layout.levels <= 1 + log THEN layout.levels ELSE 1 + log)

\* a layout of 4 x 2 texels asking for 5 levels gets 3
C6_Witness ==
    /\ pc = "tex_alive"
    /\ layout.width = 4 /\ layout.height = 2 /\ layout.levels = 5
    /\ StorageCall.args[2] = 3

(***************************************************************************)
(* Properties of VertexArrayObject::draw and of the getters.               *)
(***************************************************************************)
DrawFns == {"glDrawElementsInstanced", "glDrawArraysInstanced"}

\* the positions of the trace at which a draw call was issued
DrawCallsAt == {i \in 1..Len(gl_calls) : gl_calls[i].fn \in DrawFns}

\* C11: every draw(n) issues exactly one draw call, directly between
\* glBindVertexArray(handle) and glBindVertexArray(0): it is
\* glDrawElementsInstanced(primitive_type, draw_items_count, index_type, nullptr, n)
\* if and only if the index buffer name and the draw item count are both
\* non-zero, and glDrawArraysInstanced(primitive_type, 0, draw_items_count, n)
\* otherwise.
C11_DrawCallChoice ==
    pc \in {"vao_alive", "vao_destroyed"} =>
        /\ Cardinality(DrawCallsAt) = Cardinality(CallsOn(gl_calls, "glBindVertexArray", 1, 0))
        /\ \A i \in DrawCallsAt :
            /\ i > 1 /\ i < Len(gl_calls)
            /\ gl_calls[i - 1] = Call("glBindVertexArray", <<vao.m_va_handle>>)
            /\ gl_calls[i + 1] = Call("glBindVertexArray", <<0>>)
            /\ \E n \in InstanceCounts :
                gl_calls[i] =
                    IF vao.m_index_buffer_name # 0 /\ vao.m_draw_items_count # 0
                    THEN Call("glDrawElementsInstanced",
                              <<vao.m_primitive_type, vao.m_draw_items_count,
                                vao.m_index_type, "nullptr", n>>)
                    ELSE Call("glDrawArraysInstanced",
                              <<vao.m_primitive_type, 0, vao.m_draw_items_count, n>>)

\* an object with an index buffer and no draw items was drawn twice
C11_Witness ==
    /\ pc = "vao_alive"
    /\ vao.m_index_buffer_name # 0
    /\ vao.m_draw_items_count = 0
    /\ Cardinality(CallsOf(gl_calls, "glDrawArraysInstanced")) = 2

(***************************************************************************)
(* Properties of moved VertexArrayObjects.                                 *)
(***************************************************************************)
\* the names glCreateVertexArrays has answered with
CreatedVertexArrays == {gl_calls[i].args[2] : i \in CallsOf(gl_calls, "glCreateVertexArrays")}

\* the names whose constructor returned: the calls of a construction end with a
\* glGetError that answers GL_NO_ERROR
OwnedVertexArrays ==
    {h \in CreatedVertexArrays :
        \E i \in CallsOn(gl_calls, "glCreateVertexArrays", 2, h) :
        \E j \in CallsOn(gl_calls, "glGetError", 1, "GL_NO_ERROR") :
            /\ i < j
            /\ \A k \in (i + 1)..(j - 1) :
                gl_calls[k].fn \notin {"glCreateVertexArrays", "glGetError"}}

Holders(h) == {o \in Live : objects[o].m.m_va_handle = h}
Deletions(h) == CallsOn(gl_calls, "glDeleteVertexArrays", 2, h)

\* a handle is held by one live object and not deleted, or by none and deleted once
HeldOrDeletedOnce(h) ==
    /\ Cardinality(Holders(h)) <= 1
    /\ Holders(h) # {} => Deletions(h) = {}
    /\ Holders(h) = {} => Cardinality(Deletions(h)) = 1

\* a step that move-constructs a new object leaves some other live object, the source,
\* with the default members, and gives the new object what the source held
MoveConstructionEmptiesSource ==
    (/\ Len(objects') = Len(objects) + 1
     /\ gl_calls' = gl_calls
     /\ objects'[Len(objects')].m # DefaultMembers)
    => \E other \in Live :
        /\ objects'[Len(objects')].m = objects[other].m
        /\ objects'[other].m = DefaultMembers

\* C12: after any sequence of constructions, move constructions, move assignments
\* (self-assignment included) and destructions, no two live objects hold the same
\* non-zero handle, the source of a move construction holds handle 0 and default
\* state, and every non-zero handle is passed to glDeleteVertexArrays exactly once,
\* when the object holding it is destroyed.
C12_EveryHandleDeletedOnce ==
    /\ [](\A h \in CreatedVertexArrays : HeldOrDeletedOnce(h))
    /\ [][MoveConstructionEmptiesSource]_vars

\* what the moves do keep: the handles of the objects whose constructor returned
MovesKeepOwnership ==
    /\ [](\A h \in OwnedVertexArrays : HeldOrDeletedOnce(h))
    /\ [][MoveConstructionEmptiesSource]_vars

(***************************************************************************)
(* Properties of the functions of VertexLayout.hpp.                        *)
(***************************************************************************)
\* the byte size the claim gives for a value type
ByteSizeTable(t) ==
    IF t \in {"GL_BYTE", "GL_UNSIGNED_BYTE"} THEN 1
    ELSE IF t \in {"GL_SHORT", "GL_UNSIGNED_SHORT", "GL_HALF_FLOAT"} THEN 2
    ELSE IF t \in {"GL_INT", "GL_UNSIGNED_INT", "GL_FIXED", "GL_FLOAT",
                   "GL_INT_2_10_10_10_REV", "GL_UNSIGNED_INT_2_10_10_10_REV",
                   "GL_UNSIGNED_INT_10F_11F_11F_REV"} THEN 4
    ELSE IF t = "GL_DOUBLE" THEN 8
    ELSE 0

\* the sum of the byte sizes of the attributes of a list
RECURSIVE PackedStride(_)
PackedStride(attributes) ==
    IF attributes = <<>> THEN 0
    ELSE computeAttributeByteSize(Head(attributes)) + PackedStride(Tail(attributes))

vec3 == Attribute(3, "GL_FLOAT", FALSE, 0, "GL_FLOAT")
vec2 == Attribute(2, "GL_FLOAT", FALSE, 0, "GL_FLOAT")

\* C13: computeAttributeByteSize(a) is computeByteSize(a.type) * a.size, where
\* computeByteSize is 1 for the byte types, 2 for the short types and GL_HALF_FLOAT,
\* 4 for the int types, GL_FIXED, GL_FLOAT and the three packed types, 8 for
\* GL_DOUBLE and 0 for any other type; so tightly packed float attributes sum to
\* the documented strides: vec3 12, vec2 8, {vec3, vec2} 20, {vec3, vec3, vec2} 32.
C13_ByteSizes ==
    /\ (call.fn = "computeByteSize" /\ call.returned)
        => call.value = ByteSizeTable(call.args[1])
    /\ (call.fn = "computeAttributeByteSize" /\ call.returned)
        => call.value = ByteSizeTable(call.args[1].type) * call.args[1].size
    /\ call.returned
        => /\ PackedStride(<<vec3>>) = 12
           /\ PackedStride(<<vec2>>) = 8
           /\ PackedStride(<<vec3, vec2>>) = 20
           /\ PackedStride(<<vec3, vec3, vec2>>) = 32

\* three half floats take 6 bytes
C13_Witness ==
    /\ call.fn = "computeAttributeByteSize"
    /\ call.returned
    /\ call.args[1].type = "GL_HALF_FLOAT"
    /\ call.args[1].size = 3
    /\ call.value = 6

\* what the claim says two equal layouts share
SameLayout(lhs, rhs) ==
    /\ lhs.stride = rhs.stride
    /\ Len(lhs.attributes) = Len(rhs.attributes)
    /\ \A i \in 1..Len(lhs.attributes) :
        /\ lhs.attributes[i].size = rhs.attributes[i].size
        /\ lhs.attributes[i].type = rhs.attributes[i].type
        /\ lhs.attributes[i].normalized = rhs.attributes[i].normalized
        /\ lhs.attributes[i].offset = rhs.attributes[i].offset
        /\ lhs.attributes[i].shader_input_type = rhs.attributes[i].shader_input_type

\* C14: operator== on two layouts is true if and only if they have the same stride,
\* the same number of attributes and attributes equal in all five fields at every
\* position; buffer_name and buffer_start_offset never change the result; the
\* relation is reflexive, symmetric and transitive.
C14_LayoutEquality ==
    (call.fn = "operator==" /\ call.returned) =>
        LET lhs == call.args[1]
            rhs == call.args[2]
        IN  /\ call.value = SameLayout(lhs, rhs)
            /\ \A b \in {5, 6, 7}, o \in {0, 16, 32} :
                VertexLayout_eq([lhs EXCEPT !.buffer_name = b, !.buffer_start_offset = o], rhs)
                    = call.value
            /\ VertexLayout_eq(lhs, lhs)
            /\ VertexLayout_eq(rhs, lhs) = call.value
            /\ \A other \in ComparedLayouts :
                (call.value /\ VertexLayout_eq(rhs, other)) => VertexLayout_eq(lhs, other)

\* two layouts of two attributes over different buffers compare equal
C14_Witness ==
    /\ call.fn = "operator=="
    /\ call.returned
    /\ call.value
    /\ call.args[1].buffer_name # call.args[2].buffer_name
    /\ call.args[1].buffer_start_offset # call.args[2].buffer_start_offset
    /\ Len(call.args[1].attributes) = 2

(***************************************************************************)
(* Properties of Texture2DArray's getters and constructor.                 *)
(***************************************************************************)
\* C15: getTextureLayout() of a Texture2DArray constructed from a layout returns
\* that layout's internal_format, width, height, depth, format, type and levels
\* with empty integer and float parameter lists, whatever the layout's lists were
\* and however often bindTexture or updateMipmaps were called.
C15_TextureLayoutReturned ==
    TextureConstructed =>
        getTextureLayout = [layout EXCEPT !.int_parameters = <<>>, !.float_parameters = <<>>]

\* a texture built with both kinds of parameters, after bindTexture and updateMipmaps
C15_Witness ==
    /\ pc = "tex_alive"
    /\ layout.int_parameters # <<>>
    /\ layout.float_parameters # <<>>
    /\ layout.height # layout.depth
    /\ CallsOn(gl_calls, "glBindTexture", 2, tex.m_name) # {}
    /\ Cardinality(CallsOf(gl_calls, "glBindTexture")) = 5

(***************************************************************************)
(* Properties of ShaderStorageBufferObject.                                *)
(***************************************************************************)
SSBOConstructed == pc \in {"ssbo_alive", "ssbo_destroyed"}

\* the allocations asked of the driver so far: the constructor's, then one for each reload
Allocations == CallsOf(gl_calls, "glBufferData")
LastAllocation == CHOOSE i \in Allocations : \A j \in Allocations : j <= i

\* C16: getSize() returns the size given to the constructor until the first reload
\* and the size given to the last reload after it, also when the driver reported
\* an error for that allocation (it is printed, the size stays); the index given
\* to reload changes nothing: a reload issues the three allocation calls on the
\* object's buffer and glGetError, and none of them carries an index.
C16_SizeIsLastRequested ==
    SSBOConstructed =>
        /\ getSize = gl_calls[LastAllocation].args[2]
        /\ Cardinality(Allocations) = 1 + Cardinality(CallsOf(gl_calls, "glGetError"))
        /\ \A i \in CallsOf(gl_calls, "glGetError") :
            /\ i > 3
            /\ SubSeq(gl_calls, i - 3, i - 1)
                = BufferDataCalls(ssbo.m_handle, gl_calls[i - 2].args[2], gl_calls[i - 2].args[3])
            /\ gl_calls[i].args[1] # "GL_NO_ERROR" => cerr # <<>>

\* constructed with 16 bytes, then reloaded with 0 bytes, for which the driver
\* reported an error
C16_Witness ==
    /\ pc = "ssbo_alive"
    /\ gl_calls[3].args[2] = 16
    /\ getSize = 0
    /\ gl_calls[Len(gl_calls)] = Call("glGetError", <<"GL_INVALID_OPERATION">>)
    /\ Cardinality(Allocations) = 2

\* C17: the constructor of Texture2DArray issues, in this order: glGenTextures,
\* glBindTexture of the name, glTexParameteri for every integer parameter in list
\* order, glTexParameterf for every float parameter in list order, glTexStorage3D
\* once, glTexSubImage3D if and only if data is not null, glGenerateMipmap if and
\* only if generateMipmap is true, glGetTextureHandleARB, glBindTexture of 0 and
\* glGetError; a native error is printed and never thrown: construction completes.
C17_ConstructorCallOrder ==
    (pc \in {"tex_alive", "tex_destroyed"}) =>
        LET target == "GL_TEXTURE_2D_ARRAY"
            ni == Len(layout.int_parameters)
            nf == Len(layout.float_parameters)
            s == 3 + ni + nf
            u == IF tex_args.data # "nullptr" THEN 1 ELSE 0
            g == IF tex_args.generateMipmap THEN 1 ELSE 0
            last == s + u + g + 3
            ctor == SubSeq(gl_calls, 1, last)
        IN  /\ Len(gl_calls) >= last
            /\ gl_calls[1] = Call("glGenTextures", <<1, tex.m_name>>)
            /\ gl_calls[2] = Call("glBindTexture", <<target, tex.m_name>>)
            /\ \A j \in 1..ni :
                gl_calls[2 + j] = Call("glTexParameteri",
                                       <<target, layout.int_parameters[j][1],
                                         layout.int_parameters[j][2]>>)
            /\ \A j \in 1..nf :
                gl_calls[2 + ni + j] = Call("glTexParameterf",
                                            <<target, layout.float_parameters[j][1],
                                              layout.float_parameters[j][2]>>)
            /\ gl_calls[s].fn = "glTexStorage3D"
            /\ u = 1 => gl_calls[s + 1].fn = "glTexSubImage3D"
            /\ g = 1 => gl_calls[s + u + 1].fn = "glGenerateMipmap"
            /\ gl_calls[s + u + g + 1].fn = "glGetTextureHandleARB"
            /\ gl_calls[s + u + g + 2] = Call("glBindTexture", <<target, 0>>)
            /\ gl_calls[last].fn = "glGetError"
            /\ Cardinality(CallsOf(ctor, "glTexStorage3D")) = 1
            /\ Cardinality(CallsOf(ctor, "glTexSubImage3D")) = u
            /\ Cardinality(CallsOf(ctor, "glGenerateMipmap")) = g
            /\ exception = NoException
            /\ gl_calls[last].args[1] # "GL_NO_ERROR"
                => cerr = <<<<"GL error during array texture (id: ", "id", ") creation: ",
                              gl_calls[last].args[1]>>>>
            /\ gl_calls[last].args[1] = "GL_NO_ERROR" => cerr = <<>>

\* a texture with two integer parameters and a float parameter, with data and
\* mipmaps, whose construction met a native error and completed
C17_Witness ==
    /\ pc = "tex_alive"
    /\ ops = 0
    /\ Len(layout.int_parameters) = 2
    /\ Len(layout.float_parameters) = 1
    /\ tex_args.data # "nullptr"
    /\ tex_args.generateMipmap
    /\ cerr # <<>>
    /\ Len(gl_calls) = 11

(***************************************************************************)
(* Properties of the order of GLSLProgram's construction.                  *)
(***************************************************************************)
\* the position of the glCreateShader call that answered the name k
CreatedAt(k) == CHOOSE i \in CallsOf(gl_calls, "glCreateShader") : gl_calls[i].args[2] = k

\* C18: the constructor compiles the shaders strictly in list order and stops at
\* the first failing entry: no later entry is compiled or attached; glLinkProgram
\* is called exactly once if and only if every entry compiled successfully, after
\* the last glAttachShader; with an empty list it is called with no shader attached.
C18_CompileOrderThenLink ==
    GLSLLives =>
        LET n == Count(gl_calls, "glCreateShader")
            links == CallsOf(gl_calls, "glLinkProgram")
            attaches == CallsOf(gl_calls, "glAttachShader")
            failed == CompileFailed(gl_calls)
        IN  /\ n <= Len(shaderList)
            /\ \A k \in 1..n :
                /\ gl_calls[CreatedAt(k)].args[1] = shaderList[k][1]
                /\ gl_calls[CreatedAt(k) + 1] = Call("glShaderSource", <<k, 1, shaderList[k][2]>>)
                /\ gl_calls[CreatedAt(k) + 2] = Call("glCompileShader", <<k>>)
                /\ k < n => /\ CreatedAt(k) < CreatedAt(k + 1)
                            /\ CallsOn(gl_calls, "glAttachShader", 2, k) # {}
            /\ Cardinality(failed) <= 1
            /\ \A f \in failed :
                /\ gl_calls[f].args[1] = n
                /\ CallsOn(gl_calls, "glAttachShader", 2, n) = {}
                /\ links = {}
            /\ EmptyEntries # {} => n < FirstEmpty /\ links = {}
            /\ Cardinality(links) <= 1
            /\ links # {} => Cardinality(CompiledOK(gl_calls)) = Len(shaderList)
            /\ (pc # "glsl_try" /\ Cardinality(CompiledOK(gl_calls)) = Len(shaderList))
                => Cardinality(links) = 1
            /\ \A l \in links : \A a \in attaches : a < l
            /\ (pc # "glsl_try" /\ shaderList = <<>>) => links # {} /\ attaches = {}

\* two shaders were compiled and attached, and the program was linked
C18_Witness ==
    /\ pc = "glsl_alive"
    /\ Len(shaderList) = 2
    /\ Count(gl_calls, "glAttachShader") = 2
    /\ Count(gl_calls, "glLinkProgram") = 1

(***************************************************************************)
(* Properties of a VertexArrayObject whose construction is cut short, and  *)
(* of the element buffer.                                                  *)
(***************************************************************************)
\* the attribute indices the calls of a function were issued for, in order
AttribsOf(fns) == [i \in 1..Len(CallsIn(gl_calls, fns)) |-> CallsIn(gl_calls, fns)[i].args[2]]

\* C19: when createVertexArray meets an invalid shader_input_type at global
\* attribute index k, it throws with the attributes 0..k-1 enabled, formatted and
\* bound, attribute k enabled and without format and binding, no later attribute
\* and no later layout touched, and glVertexArrayElementBuffer not called.
C19_PartialVertexArray ==
    (pc = "vao_thrown" /\ exception.what = InvalidInputType) =>
        LET d == vao.m_vertex_descriptor
            k == LastReached(d)
        IN  /\ InvalidAttribs(d) # {}
            /\ AttribsOf({"glEnableVertexArrayAttrib"}) = [i \in 1..(k + 1) |-> i - 1]
            /\ AttribsOf(FormatFns) = [i \in 1..k |-> i - 1]
            /\ AttribsOf({"glVertexArrayAttribBinding"}) = [i \in 1..k |-> i - 1]
            /\ AttribsOf({"glVertexArrayVertexBuffer"}) = [i \in 1..LayoutOf(d, k) |-> i - 1]
            /\ gl_calls[Len(gl_calls)] = Call("glEnableVertexArrayAttrib", <<vao.m_va_handle, k>>)
            /\ CallsOf(gl_calls, "glVertexArrayElementBuffer") = {}

\* the second attribute of the first of two layouts is invalid, and an index buffer
\* was given
C19_Witness ==
    /\ pc = "vao_thrown"
    /\ exception.what = InvalidInputType
    /\ LastReached(vao.m_vertex_descriptor) = 1
    /\ Len(vao.m_vertex_descriptor) = 2
    /\ Len(vao.m_vertex_descriptor[1].attributes) = 2
    /\ vao.m_index_buffer_name # 0

\* the calls that configure the vertex buffers and attributes of a vertex array
ConfigFns == AttribFns \cup {"glVertexArrayVertexBuffer"}
ElementBuffers == CallsOf(gl_calls, "glVertexArrayElementBuffer")

\* the element buffer is attached once and last, and the getters return the arguments
AttachedLastAndGetters ==
    /\ \A i \in ElementBuffers :
        /\ gl_calls[i] = Call("glVertexArrayElementBuffer",
                              <<vao.m_va_handle, vao_args.index_buffer_name>>)
        /\ \A j \in 1..Len(gl_calls) : gl_calls[j].fn \in ConfigFns => j < i
    /\ pc \in {"vao_alive", "vao_destroyed"}
        => /\ getVertexLayouts = vao_args.vertex_descriptor
           /\ getIndexType = vao_args.index_data_type
           /\ getPrimitiveType = vao_args.primitive_type
           /\ getDrawItemsCount = vao_args.draw_items_count

\* C20 as stated: construction attaches an element buffer with
\* glVertexArrayElementBuffer if and only if index_buffer_name is non-zero, exactly
\* once and after all vertex buffer and attribute calls; the getters of a
\* successfully constructed object return the constructor's arguments, whatever
\* bind and draw calls were made.
C20_ElementBufferIffNonZero ==
    VAOLives =>
        /\ Cardinality(ElementBuffers) = IF vao_args.index_buffer_name # 0 THEN 1 ELSE 0
        /\ AttachedLastAndGetters

\* C20: a construction whose createVertexArray does not throw for an invalid
\* shader_input_type attaches an element buffer if and only if index_buffer_name
\* is non-zero, exactly once and after all vertex buffer and attribute calls; one
\* that throws there attaches none.  The getters of a successfully constructed
\* object return the constructor's arguments, whatever bind and draw calls were made.
C20_ElementBufferUnlessThrown ==
    VAOLives =>
        /\ Cardinality(ElementBuffers) =
            IF vao_args.index_buffer_name # 0 /\ InvalidAttribs(vao_args.vertex_descriptor) = {}
            THEN 1 ELSE 0
        /\ AttachedLastAndGetters

\* an object with two vertex buffers and an index buffer, bound once and drawn once
C20_Witness ==
    /\ pc = "vao_alive"
    /\ ops = 2
    /\ Len(vao_args.vertex_descriptor) = 2
    /\ vao_args.draw_items_count = 3
    /\ vao_args.index_buffer_name # 0
    /\ Cardinality(ElementBuffers) = 1
    /\ Cardinality(DrawCallsAt) = 1

(***************************************************************************)
(* Properties of the native names of ShaderStorageBufferObject and         *)
(* Texture2DArray.                                                         *)
(***************************************************************************)
\* the calls of function f whose k-th argument is not the value v
CallsNotOn(f, k, v) == {i \in CallsOf(gl_calls, f) : gl_calls[i].args[k] # v}

\* the calls of function del are one, the last of the trace, on the name, once the
\* object is destroyed, and none before
DeletedInDestructor(del, name, destroyed) ==
    IF destroyed
    THEN /\ CallsOf(gl_calls, del) = {Len(gl_calls)}
         /\ gl_calls[Len(gl_calls)] = Call(del, <<1, name>>)
    ELSE CallsOf(gl_calls, del) = {}

\* C21: the name of a ShaderStorageBufferObject and of a Texture2DArray is
\* generated exactly once, in the constructor; every later native call of the
\* object that names a buffer or texture (reload, bind, bindTexture,
\* updateMipmaps, bindImage) carries that name, which getName returns; it is
\* passed to glDeleteBuffers / glDeleteTextures exactly once, in the destructor;
\* reload generates no buffer name.
C21_OneNameFromGenToDelete ==
    /\ SSBOConstructed =>
        LET name == gl_calls[1].args[2]
        IN  /\ CallsOf(gl_calls, "glGenBuffers") = {1}
            /\ ssbo.m_handle = name
            /\ CallsNotOn("glBindBuffer", 2, name) = CallsOn(gl_calls, "glBindBuffer", 2, 0)
            /\ \A i \in CallsOn(gl_calls, "glBindBuffer", 2, 0) :
                gl_calls[i - 1].fn = "glBufferData"
            /\ CallsNotOn("glBindBufferBase", 3, name) = {}
            /\ DeletedInDestructor("glDeleteBuffers", name, pc = "ssbo_destroyed")
    /\ TextureConstructed =>
        LET name == gl_calls[1].args[2]
        IN  /\ CallsOf(gl_calls, "glGenTextures") = {1}
            /\ getName = name
            /\ CallsNotOn("glBindTexture", 2, name) = CallsOn(gl_calls, "glBindTexture", 2, 0)
            /\ \A i \in CallsOn(gl_calls, "glBindTexture", 2, 0) :
                gl_calls[i - 1].fn \in {"glGetTextureHandleARB", "glGenerateMipmap"}
            /\ CallsNotOn("glBindImageTexture", 2, name) = {}
            /\ CallsNotOn("glGetTextureHandleARB", 1, name) = {}
            /\ DeletedInDestructor("glDeleteTextures", name, pc = "tex_destroyed")

\* a buffer that was reloaded and bound to an index and then destroyed
C21_Witness ==
    /\ pc = "ssbo_destroyed"
    /\ Cardinality(CallsOf(gl_calls, "glBufferData")) = 2
    /\ Cardinality(CallsOf(gl_calls, "glBindBufferBase")) = 1
    /\ gl_calls[Len(gl_calls)] = Call("glDeleteBuffers", <<1, ssbo.m_handle>>)

====
